---------------------------- MODULE Spec2Model ----------------------------
(***************************************************************************)
(* A model of the KOAssistant translation tooling:                         *)
(*   scripts/translate.py             PO codec, extraction filter,         *)
(*                                    import/apply merger, CLI main()      *)
(*   scripts/validate_translations.py validation engine                    *)
(*                                                                         *)
(* A Python str is a sequence of one-character strings; a text file is the *)
(* sequence of its lines (each without its line terminator).               *)
(***************************************************************************)
EXTENDS Integers, Sequences, FiniteSets, TLC

VARIABLES
    pc,               \* position of the running procedure
    po_exists,        \* whether the language's PO file exists
    po,               \* the PO file on disk: its lines
    entries,          \* main(): the parsed entries, updated in place by apply
    orig,             \* history: the entries as parse_po_file returned them
    xargs,            \* main(): the extract arguments in use (mode, batch_size)
    loop_batch,        \* main(): the extract loop's batch number
    exported,         \* the export documents written by extract, in order
    nfiles,           \* main(): how many file arguments of apply were processed
    imports,          \* history: per imported file, its document and what import_translations returned
    all_translations, \* main(): the merged translations dict
    all_errors,       \* main(): the merged error list
    all_skipped,      \* main(): the merged set of protected msgids
    verified,         \* main(): args.verified, once apply has read it
    applied,          \* main(): the count apply_translations returned
    validation,       \* main(): what run_validation returned, if it ran
    exit_code,        \* the exit status of the process, -1 while it runs
    s_in,             \* escape round trip: the input string
    s_esc,            \* escape round trip: escape_po_string(s_in)
    s_out,            \* escape round trip: unescape_po_string(s_esc)
    filtered,         \* filter_entries of the parsed entries, per mode
    v_entries,        \* validator: the entries its parse_po_file returned
    v_idx,            \* validator: the position of validate_language's loop
    v_result,         \* validator: the ValidationResult being filled
    v_report          \* validator: standard output and exit status of its main()

mainVars == <<po_exists, po, entries, orig, xargs, loop_batch, exported, nfiles, imports,
              all_translations, all_errors, all_skipped, verified, applied, validation, exit_code>>

escVars == <<s_in, s_esc, s_out>>

batchVars == <<filtered>>

valVars == <<v_entries, v_idx, v_result, v_report>>

auxVars == <<escVars, batchVars, valVars>>

vars == <<pc, mainVars, auxVars>>

(***************************************************************************)
(* Characters                                                              *)
(***************************************************************************)
BS  == "\\"
QQ  == "\""
NL  == "\n"
TAB == "\t"
SP  == " "

(***************************************************************************)
(* Bounds of the model                                                     *)
(***************************************************************************)
MaxStrLen    == 3   \* the longest string of the escape round trip
MaxEntries   == 2   \* the most entries (besides the header) of a PO file
MaxFiles     == 2   \* the most file arguments of one apply
MaxBatchEntries == 3   \* SpecBatch: the most entries of a PO file besides the header
MaxLines     == 3   \* SpecCodec: the most lines of a PO text
MaxValEntries == 2  \* SpecValidate: the most entries of a PO file besides the header
MaxBatchSize == 2   \* the largest --batch-size

(***************************************************************************)
(* Python str primitives                                                   *)
(***************************************************************************)
Min(a, b) == IF a < b THEN a ELSE b

\* s[i:] with 0-based i >= 0
From(s, i) == SubSeq(s, i + 1, Len(s))

\* s[1:-1]
Inner(s) == SubSeq(s, 2, Len(s) - 1)

\* s.startswith(p)
StartsWith(s, p) == Len(s) >= Len(p) /\ SubSeq(s, 1, Len(p)) = p

\* s.endswith(p)
EndsWith(s, p) == Len(s) >= Len(p) /\ SubSeq(s, Len(s) - Len(p) + 1, Len(s)) = p

\* sub in s
Contains(s, sub) == \E i \in 1..(Len(s) - Len(sub) + 1) : SubSeq(s, i, i + Len(sub) - 1) = sub

\* s.count(sub): non-overlapping occurrences, scanning from the left
RECURSIVE Count(_, _)
Count(s, sub) ==
    IF Len(s) < Len(sub) THEN 0
    ELSE IF SubSeq(s, 1, Len(sub)) = sub
         THEN 1 + Count(From(s, Len(sub)), sub)
         ELSE Count(Tail(s), sub)

\* s.replace(old, new): every non-overlapping occurrence, scanning from the left
RECURSIVE Replace(_, _, _)
Replace(s, old, new) ==
    IF Len(s) < Len(old) THEN s
    ELSE IF SubSeq(s, 1, Len(old)) = old
         THEN new \o Replace(From(s, Len(old)), old, new)
         ELSE <<Head(s)>> \o Replace(Tail(s), old, new)

IsSpace(c) == c \in {SP, TAB, NL}

RECURSIVE LStrip(_)
LStrip(s) == IF s # <<>> /\ IsSpace(Head(s)) THEN LStrip(Tail(s)) ELSE s

RECURSIVE RStrip(_)
RStrip(s) == IF s # <<>> /\ IsSpace(s[Len(s)]) THEN RStrip(SubSeq(s, 1, Len(s) - 1)) ELSE s

\* s.strip()
Strip(s) == RStrip(LStrip(s))

\* s.split(c) for a one-character separator: always at least one part
RECURSIVE SplitAcc(_, _, _)
SplitAcc(s, c, cur) ==
    IF s = <<>> THEN <<cur>>
    ELSE IF Head(s) = c
         THEN <<cur>> \o SplitAcc(Tail(s), c, <<>>)
         ELSE SplitAcc(Tail(s), c, Append(cur, Head(s)))

Split(s, c) == SplitAcc(s, c, <<>>)

\* s.split(): on runs of whitespace, no empty parts
RECURSIVE WordsAcc(_, _)
WordsAcc(s, cur) ==
    IF s = <<>> THEN (IF cur = <<>> THEN <<>> ELSE <<cur>>)
    ELSE IF IsSpace(Head(s))
         THEN (IF cur = <<>> THEN <<>> ELSE <<cur>>) \o WordsAcc(Tail(s), <<>>)
         ELSE WordsAcc(Tail(s), Append(cur, Head(s)))

Words(s) == WordsAcc(s, <<>>)

\* sep.join(parts)
RECURSIVE Join(_, _)
Join(parts, sep) ==
    IF parts = <<>> THEN <<>>
    ELSE IF Len(parts) = 1 THEN parts[1]
    ELSE parts[1] \o sep \o Join(Tail(parts), sep)

\* the concatenation of a sequence of sequences
RECURSIVE Flatten(_)
Flatten(ss) == IF ss = <<>> THEN <<>> ELSE Head(ss) \o Flatten(Tail(ss))

Range(f) == {f[i] : i \in DOMAIN f}

\* every sequence over S of length at most n
SeqsUpTo(S, n) == UNION {[1..k -> S] : k \in 0..n}

(***************************************************************************)
(* PO string escaping (translate.py)                                       *)
(***************************************************************************)
unescape_po_string(s) ==
    Replace(Replace(Replace(Replace(s,
        <<BS, "n">>, <<NL>>), <<BS, "t">>, <<TAB>>), <<BS, QQ>>, <<QQ>>), <<BS, BS>>, <<BS>>)

escape_po_string(s) ==
    Replace(Replace(Replace(Replace(s,
        <<BS>>, <<BS, BS>>), <<QQ>>, <<BS, QQ>>), <<NL>>, <<BS, "n">>), <<TAB>>, <<BS, "t">>)

(***************************************************************************)
(* Literal text of the PO format                                           *)
(***************************************************************************)
FUZZY == <<"f", "u", "z", "z", "y">>

\* the keywords the parsers and the writer look for and write
Kw ==
    [msgid_plural |-> <<"m", "s", "g", "i", "d", "_", "p", "l", "u", "r", "a", "l", " ">>,
     msgstr_br    |-> <<"m", "s", "g", "s", "t", "r", "[">>,
     msgid        |-> <<"m", "s", "g", "i", "d", " ">>,
     msgstr       |-> <<"m", "s", "g", "s", "t", "r", " ">>,
     refs         |-> <<"#", ":">>,
     flags        |-> <<"#", ",">>,
     comment      |-> <<"#">>]

Digits == <<"0", "1", "2", "3", "4", "5", "6", "7", "8", "9">>

IsDigit(c) == c \in Range(Digits)

DigitVal(c) == (CHOOSE i \in 1..10 : Digits[i] = c) - 1

\* int(s) for a string of decimal digits
RECURSIVE ParseInt(_)
ParseInt(s) == IF s = <<>> THEN 0 ELSE 10 * ParseInt(SubSeq(s, 1, Len(s) - 1)) + DigitVal(s[Len(s)])

\* str(n) for n >= 0
RECURSIVE IntToStr(_)
IntToStr(n) == IF n < 10 THEN <<Digits[n + 1]>> ELSE IntToStr(n \div 10) \o <<Digits[(n % 10) + 1]>>

\* the number of leading decimal digits of s
RECURSIVE LeadingDigits(_)
LeadingDigits(s) == IF s # <<>> /\ IsDigit(Head(s)) THEN 1 + LeadingDigits(Tail(s)) ELSE 0

\* the 1-based position of the last occurrence of c in s, 0 when there is none
LastIndexOf(s, c) ==
    IF \E i \in 1..Len(s) : s[i] = c
    THEN CHOOSE i \in 1..Len(s) : s[i] = c /\ \A j \in (i + 1)..Len(s) : s[j] # c
    ELSE 0

\* value.startswith('"') and value.endswith('"')
Quoted(value) == StartsWith(value, <<QQ>>) /\ EndsWith(value, <<QQ>>)

(***************************************************************************)
(* class POEntry (translate.py)                                            *)
(***************************************************************************)
NewPOEntry ==
    [comments      |-> <<>>,
     references    |-> <<>>,
     flags         |-> <<>>,
     msgid         |-> <<>>,
     msgid_plural  |-> <<>>,
     msgstr        |-> <<>>,
     msgstr_plural |-> <<>>,
     line_number   |-> 0,
     is_header     |-> FALSE]

is_fuzzy(e) == FUZZY \in Range(e.flags)

is_translated(e) == e.msgstr # <<>> /\ ~e.is_header

is_verified(e) == is_translated(e) /\ ~is_fuzzy(e)

is_empty(e) == e.msgstr = <<>> /\ ~e.is_header

(***************************************************************************)
(* parse_po_file (translate.py): one step per line of the file.  The scan  *)
(* state is the list built so far, the entry being accumulated (has = it   *)
(* is not None) and the field that continuation lines extend.              *)
(***************************************************************************)
ParseInit == [entries |-> <<>>, has |-> FALSE, cur |-> NewPOEntry, field |-> "none", fidx |-> 0]

\* the accumulated entry is kept when it has an id or is the header
Flush(st) ==
    IF st.has /\ (st.cur.msgid # <<>> \/ st.cur.is_header)
    THEN Append(st.entries, st.cur)
    ELSE st.entries

\* re.match(r'msgstr\[(\d+)\] "(.*)"', line)
PluralRest(line)  == From(line, Len(Kw.msgstr_br))
PluralAfter(line) == From(PluralRest(line), LeadingDigits(PluralRest(line)))
PluralMatch(line) ==
    /\ StartsWith(line, Kw.msgstr_br)
    /\ LeadingDigits(PluralRest(line)) >= 1
    /\ StartsWith(PluralAfter(line), <<"]", SP, QQ>>)
    /\ LastIndexOf(From(PluralAfter(line), 3), QQ) > 0
PluralIdx(line)   == ParseInt(SubSeq(PluralRest(line), 1, LeadingDigits(PluralRest(line))))
PluralValue(line) ==
    LET body == From(PluralAfter(line), 3)
    IN  SubSeq(body, 1, LastIndexOf(body, QQ) - 1)

\* while len(msgstr_plural) <= idx: msgstr_plural.append("")
RECURSIVE PadPlural(_, _)
PadPlural(pl, idx) == IF Len(pl) <= idx THEN PadPlural(Append(pl, <<>>), idx) ELSE pl

ParseComment(cur, line) ==
    LET c1 == [cur EXCEPT !.comments = Append(@, line)]
    IN  IF StartsWith(line, Kw.refs)
        THEN [c1 EXCEPT !.references = @ \o Words(Strip(From(line, 2)))]
        ELSE IF StartsWith(line, Kw.flags)
        THEN LET fl == Split(Strip(From(line, 2)), ",")
             IN  [c1 EXCEPT !.flags = @ \o [i \in 1..Len(fl) |-> Strip(fl[i])]]
        ELSE c1

ParseLine(st, line, line_number) ==
    IF Strip(line) = <<>>
    THEN [entries |-> Flush(st), has |-> FALSE, cur |-> NewPOEntry,
          field |-> "none", fidx |-> 0]
    ELSE
    LET cur == IF st.has THEN st.cur ELSE [NewPOEntry EXCEPT !.line_number = line_number]
        s1  == [st EXCEPT !.has = TRUE, !.cur = cur]
    IN
    IF StartsWith(line, Kw.comment)
    THEN [s1 EXCEPT !.cur = ParseComment(cur, line)]
    ELSE IF StartsWith(line, Kw.msgid)
    THEN LET value == Strip(From(line, 6))
             id    == unescape_po_string(Inner(value))
         IN  IF Quoted(value)
             THEN [s1 EXCEPT !.field = "msgid",
                             !.cur = [cur EXCEPT !.msgid = id,
                                                 !.is_header = IF id = <<>> /\ st.entries = <<>>
                                                               THEN TRUE ELSE @]]
             ELSE [s1 EXCEPT !.field = "msgid"]
    ELSE IF StartsWith(line, Kw.msgid_plural)
    THEN LET value == Strip(From(line, 13))
         IN  IF Quoted(value)
             THEN [s1 EXCEPT !.field = "msgid_plural",
                             !.cur = [cur EXCEPT !.msgid_plural = unescape_po_string(Inner(value))]]
             ELSE [s1 EXCEPT !.field = "msgid_plural"]
    ELSE IF StartsWith(line, Kw.msgstr)
    THEN LET value == Strip(From(line, 7))
         IN  IF Quoted(value)
             THEN [s1 EXCEPT !.field = "msgstr",
                             !.cur = [cur EXCEPT !.msgstr = unescape_po_string(Inner(value))]]
             ELSE [s1 EXCEPT !.field = "msgstr"]
    ELSE IF PluralMatch(line)
    THEN LET idx == PluralIdx(line)
             pl  == PadPlural(cur.msgstr_plural, idx)
         IN  [s1 EXCEPT !.field = "msgstr[", !.fidx = idx,
                        !.cur = [cur EXCEPT !.msgstr_plural =
                                     [pl EXCEPT ![idx + 1] = unescape_po_string(PluralValue(line))]]]
    ELSE IF Quoted(line)
    THEN LET value == unescape_po_string(Inner(line))
         IN  IF st.field = "msgid" THEN [s1 EXCEPT !.cur = [cur EXCEPT !.msgid = @ \o value]]
             ELSE IF st.field = "msgid_plural"
             THEN [s1 EXCEPT !.cur = [cur EXCEPT !.msgid_plural = @ \o value]]
             ELSE IF st.field = "msgstr" THEN [s1 EXCEPT !.cur = [cur EXCEPT !.msgstr = @ \o value]]
             ELSE IF st.field = "msgstr["
             THEN [s1 EXCEPT !.cur = [cur EXCEPT !.msgstr_plural[st.fidx + 1] = @ \o value]]
             ELSE s1
    ELSE s1

RECURSIVE ParseFrom(_, _, _)
ParseFrom(st, lines, k) ==
    IF k > Len(lines) THEN st ELSE ParseFrom(ParseLine(st, lines[k], k), lines, k + 1)

parse_po_file(lines) == Flush(ParseFrom(ParseInit, lines, 1))

(***************************************************************************)
(* format_msgstr_for_po and write_po_file (translate.py)                   *)
(***************************************************************************)
MsgidWrapLen == 70

QuotedLine(s) == <<QQ>> \o s \o <<QQ>>

format_msgstr_for_po(msgstr) ==
    IF msgstr = <<>> THEN <<Kw.msgstr \o <<QQ, QQ>>>>
    ELSE IF NL \in Range(msgstr)
    THEN LET parts == Split(msgstr, NL)
             Part(i) == IF i < Len(parts)
                        THEN <<QuotedLine(escape_po_string(parts[i]) \o <<BS, "n">>)>>
                        ELSE IF parts[i] # <<>>
                             THEN <<QuotedLine(escape_po_string(parts[i]))>>
                             ELSE <<>>
         IN  <<Kw.msgstr \o <<QQ, QQ>>>> \o Flatten([i \in 1..Len(parts) |-> Part(i)])
    ELSE <<Kw.msgstr \o QuotedLine(escape_po_string(msgstr))>>

\* the flags of one '#,' comment line as the writer reads them
CommentFlags(comment) ==
    LET fl == Split(From(comment, 2), ",")
    IN  [i \in 1..Len(fl) |-> Strip(fl[i])]

\* variant that writes a changed flag line with the fuzzy flag alone
WriteFlagLine_fuzzyAlone(comment, should_remove_fuzzy, should_add_fuzzy) ==
    LET f0 == CommentFlags(comment)
        f1 == IF should_remove_fuzzy THEN <<>> ELSE f0
        f2 == IF should_add_fuzzy /\ FUZZY \notin Range(f1) THEN <<FUZZY>> ELSE f1
    IN  IF f2 # <<>> THEN <<Kw.flags \o <<SP>> \o Join(f2, <<",", SP>>)>> ELSE <<>>

WriteFlagLine(comment, should_remove_fuzzy, should_add_fuzzy) ==
    LET f0 == CommentFlags(comment)
        f1 == IF should_remove_fuzzy THEN SelectSeq(f0, LAMBDA fl : fl # FUZZY) ELSE f0
        f2 == IF should_add_fuzzy /\ FUZZY \notin Range(f1) THEN Append(f1, FUZZY) ELSE f1
    IN  IF f2 # <<>> THEN <<Kw.flags \o <<SP>> \o Join(f2, <<",", SP>>)>> ELSE <<>>

WriteComments(entry, should_remove_fuzzy, should_add_fuzzy) ==
    LET One(c) == IF StartsWith(c, Kw.flags)
                  THEN WriteFlagLine(c, should_remove_fuzzy, should_add_fuzzy)
                  ELSE <<c>>
        wrote_fuzzy_line == \E i \in 1..Len(entry.comments) : StartsWith(entry.comments[i], Kw.flags)
    IN  Flatten([i \in 1..Len(entry.comments) |-> One(entry.comments[i])])
        \o (IF should_add_fuzzy /\ ~wrote_fuzzy_line THEN <<Kw.flags \o <<SP>> \o FUZZY>> ELSE <<>>)

WriteMsgid(msgid) ==
    IF NL \in Range(msgid) \/ Len(msgid) > MsgidWrapLen
    THEN LET parts == Split(msgid, NL)
             last  == parts[Len(parts)]
             Part(i) == IF parts[i] # last
                        THEN <<QuotedLine(escape_po_string(parts[i]) \o <<BS, "n">>)>>
                        ELSE IF parts[i] # <<>>
                             THEN <<QuotedLine(escape_po_string(parts[i]))>>
                             ELSE <<>>
         IN  <<Kw.msgid \o <<QQ, QQ>>>> \o Flatten([i \in 1..Len(parts) |-> Part(i)])
    ELSE <<Kw.msgid \o QuotedLine(escape_po_string(msgid))>>

WriteEntry(entry, remove_fuzzy_for, add_fuzzy_for) ==
    LET should_remove_fuzzy == entry.msgid \in remove_fuzzy_for
        should_add_fuzzy    == entry.msgid \in add_fuzzy_for /\ ~is_verified(entry)
    IN  WriteComments(entry, should_remove_fuzzy, should_add_fuzzy)
        \o WriteMsgid(entry.msgid)
        \o (IF entry.msgid_plural # <<>>
            THEN <<Kw.msgid_plural \o QuotedLine(escape_po_string(entry.msgid_plural))>>
            ELSE <<>>)
        \o format_msgstr_for_po(entry.msgstr)
        \o [i \in 1..Len(entry.msgstr_plural) |->
               Kw.msgstr_br \o IntToStr(i - 1) \o <<"]", SP>>
               \o QuotedLine(escape_po_string(entry.msgstr_plural[i]))]

\* the lines of the file: the ents separated by one empty line
write_po_file(ents, remove_fuzzy_for, add_fuzzy_for) ==
    Flatten([i \in 1..Len(ents) |->
        WriteEntry(ents[i], remove_fuzzy_for, add_fuzzy_for)
        \o (IF i < Len(ents) THEN <<<<>>>> ELSE <<>>)])

(***************************************************************************)
(* Letter case (str.lower)                                                 *)
(***************************************************************************)
UpperLetters == <<"A", "B", "C", "D", "E", "F", "G", "H", "I", "J", "K", "L", "M",
                  "N", "O", "P", "Q", "R", "S", "T", "U", "V", "W", "X", "Y", "Z">>
LowerLetters == <<"a", "b", "c", "d", "e", "f", "g", "h", "i", "j", "k", "l", "m",
                  "n", "o", "p", "q", "r", "s", "t", "u", "v", "w", "x", "y", "z">>

LowerChar(c) ==
    IF c \in Range(UpperLetters)
    THEN LowerLetters[CHOOSE i \in 1..Len(UpperLetters) : UpperLetters[i] = c]
    ELSE c

\* s.lower()
Lower(s) == [i \in 1..Len(s) |-> LowerChar(s[i])]

\* seq[:n]
Take(seq, n) == SubSeq(seq, 1, Min(n, Len(seq)))

(***************************************************************************)
(* POEntry.get_context_summary (translate.py)                              *)
(***************************************************************************)
ContextWord ==
    [gesture  |-> <<"g", "e", "s", "t", "u", "r", "e">>,
     dialog   |-> <<"d", "i", "a", "l", "o", "g">>,
     settings |-> <<"s", "e", "t", "t", "i", "n", "g", "s">>,
     main_lua |-> <<"m", "a", "i", "n", ".", "l", "u", "a">>]

\* the f-string "<label> (<filename>)" is kept as its two parts
get_context_summary(e) ==
    IF e.references = <<>> THEN [label |-> "Unknown context", filename |-> <<>>]
    ELSE LET filename == Split(e.references[1], ":")[1]
         IN  IF Contains(Lower(filename), ContextWord.gesture)
             THEN [label |-> "Gesture setting", filename |-> filename]
             ELSE IF Contains(Lower(filename), ContextWord.dialog)
             THEN [label |-> "Dialog UI", filename |-> filename]
             ELSE IF Contains(Lower(filename), ContextWord.settings)
             THEN [label |-> "Settings menu", filename |-> filename]
             ELSE IF Contains(filename, ContextWord.main_lua)
             THEN [label |-> "Main menu", filename |-> filename]
             ELSE [label |-> "UI element", filename |-> filename]

(***************************************************************************)
(* find_similar_strings (translate.py)                                     *)
(***************************************************************************)
PatternWord ==
    [koassistant   |-> <<"K", "O", "A", "s", "s", "i", "s", "t", "a", "n", "t", ":">>,
     menu          |-> <<"M", "e", "n", "u">>,
     popup         |-> <<"P", "o", "p", "u", "p">>,
     remove        |-> <<"R", "e", "m", "o", "v", "e">>,
     add           |-> <<"A", "d", "d">>,
     settings_dots |-> <<"S", "e", "t", "t", "i", "n", "g", "s", ".", ".", ".">>,
     settings      |-> <<"S", "e", "t", "t", "i", "n", "g", "s">>,
     reset         |-> <<"R", "e", "s", "e", "t">>,
     restore       |-> <<"R", "e", "s", "t", "o", "r", "e">>]

\* the group a source string is appended to, "" when to none
SimilarGroup(msgid) ==
    IF StartsWith(msgid, PatternWord.koassistant) THEN "KOAssistant: gestures"
    ELSE IF Contains(msgid, PatternWord.menu) /\ (Contains(msgid, PatternWord.remove) \/ Contains(msgid, PatternWord.add))
    THEN "Menu actions"
    ELSE IF Contains(msgid, PatternWord.popup) /\ (Contains(msgid, PatternWord.remove) \/ Contains(msgid, PatternWord.add))
    THEN "Popup actions"
    ELSE IF EndsWith(msgid, PatternWord.settings) \/ EndsWith(msgid, PatternWord.settings_dots)
    THEN "Settings items"
    ELSE IF Contains(msgid, PatternWord.reset) \/ Contains(msgid, PatternWord.restore)
    THEN "Reset/Restore actions"
    ELSE ""

\* a dict: group name -> the source strings of the group in file order
find_similar_strings(ents) ==
    LET Grouped(e) == ~e.is_header /\ e.msgid # <<>> /\ SimilarGroup(e.msgid) # ""
        members    == SelectSeq(ents, Grouped)
        names      == {SimilarGroup(members[i].msgid) : i \in 1..Len(members)}
    IN  [g \in names |->
            LET of_g == SelectSeq(members, LAMBDA e : SimilarGroup(e.msgid) = g)
            IN  [i \in 1..Len(of_g) |-> of_g[i].msgid]]

(***************************************************************************)
(* filter_entries and extract_batch (translate.py)                         *)
(***************************************************************************)
\* a variant without the exclusion of verified entries, which C7 must reject
FilterKeeps_verified(e, mode) ==
    /\ ~(e.is_header \/ e.msgid = <<>>)
    /\ \/ mode = "empty" /\ is_empty(e)
       \/ mode = "fuzzy" /\ is_fuzzy(e)
       \/ mode = "all"

\* whether filter_entries appends the entry to its result
FilterKeeps(e, mode) ==
    /\ ~(e.is_header \/ e.msgid = <<>>)
    /\ ~is_verified(e)
    /\ \/ mode = "empty" /\ is_empty(e)
       \/ mode = "fuzzy" /\ is_fuzzy(e)
       \/ mode = "all"

\* the positions (in ents) of the ents filter_entries returns, in order
RECURSIVE FilterIndexFrom(_, _, _)
FilterIndexFrom(ents, mode, i) ==
    IF i > Len(ents) THEN <<>>
    ELSE (IF FilterKeeps(ents[i], mode) THEN <<i>> ELSE <<>>)
         \o FilterIndexFrom(ents, mode, i + 1)

FilterIndex(ents, mode) == FilterIndexFrom(ents, mode, 1)

filter_entries(ents, mode) ==
    LET idx == FilterIndex(ents, mode)
    IN  [k \in 1..Len(idx) |-> ents[idx[k]]]

\* a variant that rounds down, which C6 must reject
TotalBatches_floor(n, batch_size) == n \div batch_size

\* (len(translatable) + batch_size - 1) // batch_size if translatable else 0
TotalBatches(n, batch_size) == IF n > 0 THEN (n + batch_size - 1) \div batch_size ELSE 0

\* msgid_to_group.get(msgid): the (last) group listing the string, "" for None
GroupOfMsgid(similar_map, msgid) ==
    IF \E g \in DOMAIN similar_map : msgid \in Range(similar_map[g])
    THEN CHOOSE g \in DOMAIN similar_map : msgid \in Range(similar_map[g])
    ELSE ""

BatchRecord(entry, id, similar_map) ==
    LET group == GroupOfMsgid(similar_map, entry.msgid)
    IN  [id              |-> id,
         msgid           |-> entry.msgid,
         context         |-> get_context_summary(entry),
         references      |-> Take(entry.references, 3),
         current_msgstr  |-> entry.msgstr,
         is_fuzzy        |-> is_fuzzy(entry),
         similar_strings |-> IF group = "" THEN <<>>
                             ELSE Take(SelectSeq(similar_map[group],
                                                 LAMBDA m : m # entry.msgid), 5)]

\* returns <<records, total_batches>>
extract_batch(ents, batch_num, batch_size, similar_map, mode) ==
    LET translatable  == filter_entries(ents, mode)
        total_batches == TotalBatches(Len(translatable), batch_size)
        start         == (batch_num - 1) * batch_size
        end           == Min(start + batch_size, Len(translatable))
    IN  IF batch_num < 1 \/ batch_num > total_batches
        THEN <<<<>>, total_batches>>
        ELSE <<[i \in 1..(end - start) |->
                   BatchRecord(translatable[start + i], start + i, similar_map)],
               total_batches>>

(***************************************************************************)
(* import_translations and apply_translations (translate.py).  An item of  *)
(* an import document is [has_msgid, msgid, has_msgstr, msgstr]: a key     *)
(* that is absent reads as None.  A dict is a function on its keys.        *)
(***************************************************************************)
EmptyDict == [k \in {} |-> <<>>]

\* a variant in which the value already present stays, which C9 must reject
DictUpdate_keepFirst(d1, d2) ==
    [k \in DOMAIN d1 \cup DOMAIN d2 |-> IF k \in DOMAIN d1 THEN d1[k] ELSE d2[k]]

\* d1.update(d2)
DictUpdate(d1, d2) ==
    [k \in DOMAIN d1 \cup DOMAIN d2 |-> IF k \in DOMAIN d2 THEN d2[k] ELSE d1[k]]

\* data.get("translations", data.get("entries", []))
DocItems(doc) ==
    IF doc.has_translations THEN doc.translations
    ELSE IF doc.has_entries THEN doc.entries
    ELSE <<>>

\* msgid_to_entry = {e.msgid: e for e in ents if e.msgid}
KnownMsgids(ents) == {ents[i].msgid : i \in 1..Len(ents)} \ {<<>>}

EntryOfMsgid(ents, msgid) ==
    ents[CHOOSE i \in 1..Len(ents) :
                /\ ents[i].msgid = msgid
                /\ \A j \in (i + 1)..Len(ents) : ents[j].msgid # msgid]

ImportInit == [translations |-> EmptyDict, errors |-> <<>>, skipped_verified |-> {}]

\* a variant without the protection of verified entries, which C8 must reject
ImportItem_unprotected(acc, item, ents) ==
    IF ~item.has_msgid \/ item.msgid = <<>>
    THEN [acc EXCEPT !.errors = Append(@, [kind |-> "Entry missing msgid", msgid |-> <<>>])]
    ELSE IF item.msgid \notin KnownMsgids(ents)
    THEN [acc EXCEPT !.errors = Append(@, [kind |-> "Unknown msgid", msgid |-> Take(item.msgid, 50)])]
    ELSE IF item.has_msgstr
    THEN [acc EXCEPT !.translations = DictUpdate(@, [k \in {item.msgid} |-> item.msgstr])]
    ELSE acc

\* one pass of the loop over the items
ImportItem(acc, item, ents) ==
    IF ~item.has_msgid \/ item.msgid = <<>>
    THEN [acc EXCEPT !.errors = Append(@, [kind |-> "Entry missing msgid", msgid |-> <<>>])]
    ELSE IF item.msgid \notin KnownMsgids(ents)
    THEN [acc EXCEPT !.errors = Append(@, [kind |-> "Unknown msgid", msgid |-> Take(item.msgid, 50)])]
    ELSE IF is_verified(EntryOfMsgid(ents, item.msgid))
    THEN [acc EXCEPT !.skipped_verified = @ \cup {item.msgid}]
    ELSE IF item.has_msgstr
    THEN [acc EXCEPT !.translations = DictUpdate(@, [k \in {item.msgid} |-> item.msgstr])]
    ELSE acc

RECURSIVE ImportFrom(_, _, _, _)
ImportFrom(acc, items, ents, k) ==
    IF k > Len(items) THEN acc
    ELSE ImportFrom(ImportItem(acc, items[k], ents), items, ents, k + 1)

\* returns [translations, errors, skipped_verified]
import_translations(doc, ents) == ImportFrom(ImportInit, DocItems(doc), ents, 1)

\* whether apply_translations overwrites the entry
\* variant without the check of the verified status
ApplyWrites_any(e, translations) == e.msgid \in DOMAIN translations

ApplyWrites(e, translations) == e.msgid \in DOMAIN translations /\ ~is_verified(e)

\* variant that also clears the flags of the entries it writes
apply_translations_clearFlags(ents, translations) ==
    <<[i \in 1..Len(ents) |->
          IF ApplyWrites(ents[i], translations)
          THEN [ents[i] EXCEPT !.msgstr = translations[ents[i].msgid], !.flags = <<>>]
          ELSE ents[i]],
      Cardinality({i \in 1..Len(ents) : ApplyWrites(ents[i], translations)})>>

\* returns <<ents after the in-place update, applied>>
apply_translations(ents, translations) ==
    <<[i \in 1..Len(ents) |->
          IF ApplyWrites(ents[i], translations)
          THEN [ents[i] EXCEPT !.msgstr = translations[ents[i].msgid]]
          ELSE ents[i]],
      Cardinality({i \in 1..Len(ents) : ApplyWrites(ents[i], translations)})>>

(***************************************************************************)
(* validate_translations.py: vocabularies.  A character outside ASCII is   *)
(* written as one token "<U+XXXX>".                                        *)
(***************************************************************************)
BRAND_NAMES ==
    << <<"K", "O", "A", "s", "s", "i", "s", "t", "a", "n", "t">>,
       <<"K", "O", "R", "e", "a", "d", "e", "r">>,
       <<"C", "l", "a", "u", "d", "e">>,
       <<"G", "P", "T">>,
       <<"G", "e", "m", "i", "n", "i">>,
       <<"O", "p", "e", "n", "A", "I">>,
       <<"A", "n", "t", "h", "r", "o", "p", "i", "c">>,
       <<"D", "e", "e", "p", "S", "e", "e", "k">>,
       <<"O", "l", "l", "a", "m", "a">>,
       <<"G", "r", "o", "q">>,
       <<"M", "i", "s", "t", "r", "a", "l">>,
       <<"x", "A", "I">>,
       <<"O", "p", "e", "n", "R", "o", "u", "t", "e", "r">>,
       <<"Q", "w", "e", "n">>,
       <<"K", "i", "m", "i">>,
       <<"T", "o", "g", "e", "t", "h", "e", "r">>,
       <<"F", "i", "r", "e", "w", "o", "r", "k", "s">>,
       <<"S", "a", "m", "b", "a", "N", "o", "v", "a">>,
       <<"C", "o", "h", "e", "r", "e">>,
       <<"D", "o", "u", "b", "a", "o">> >>

TECHNICAL_TERMS ==
    << <<"A", "P", "I">>,
       <<"t", "o", "k", "e", "n">>,
       <<"t", "o", "k", "e", "n", "s">>,
       <<"c", "a", "c", "h", "e">>,
       <<"c", "a", "c", "h", "i", "n", "g">>,
       <<"s", "t", "r", "e", "a", "m", "i", "n", "g">> >>

\* mistranslations.get(brand, [])
Mistranslations(brand) ==
    IF brand = BRAND_NAMES[1]
    THEN << <<"K", "O", "A", "s", "i", "s", "t", "e", "n", "t", "e">>,
            <<"K", "O", "A", "s", "s", "i", "s", "t", "e", "n", "t">>,
            <<"K", "O", "A", "s", "s", "i", "s", "t", "e", "n", "t", "e">>,
            <<"K", "O", "<U+52A9>", "<U+624B>">>,
            <<"<U+0645>", "<U+0633>", "<U+0627>", "<U+0639>", "<U+062F>", " ", "K", "O">> >>
    ELSE <<>>

UnicodeLetters == {"<U+52A9>", "<U+624B>", "<U+0645>", "<U+0633>", "<U+0627>", "<U+0639>", "<U+062F>"}

\* \w of a str pattern
IsWordChar(c) ==
    c \in Range(UpperLetters) \cup Range(LowerLetters) \cup Range(Digits) \cup {"_"} \cup UnicodeLetters

(***************************************************************************)
(* class ValidationResult.  A finding is [check, line, what, n1, n2]: the  *)
(* check's name, the line (0 for None) and the values its message shows.   *)
(***************************************************************************)
NewValidationResult == [errors |-> <<>>, warnings |-> <<>>, info |-> <<>>]

Finding(check_name, line, what, n1, n2) ==
    [check |-> check_name, line |-> line, what |-> what, n1 |-> n1, n2 |-> n2]

add_error(result, f) == [result EXCEPT !.errors = Append(@, f)]

add_warning(result, f) == [result EXCEPT !.warnings = Append(@, f)]

add_info(result, f) == [result EXCEPT !.info = Append(@, f)]

\* a variant that warnings fail too, which C10 must reject
passed_clean(result) == Len(result.errors) + Len(result.warnings) = 0

\* the property passed
passed(result) == Len(result.errors) = 0

total_issues(result) == Len(result.errors) + Len(result.warnings)

(***************************************************************************)
(* parse_po_file of validate_translations.py                               *)
(***************************************************************************)
VNewPOEntry ==
    [comments      |-> <<>>,
     msgid         |-> <<>>,
     msgid_plural  |-> <<>>,
     msgstr        |-> <<>>,
     msgstr_plural |-> <<>>,
     fuzzy         |-> FALSE,
     line_number   |-> 0,
     references    |-> <<>>]

VParseInit == [entries |-> <<>>, has |-> FALSE, cur |-> VNewPOEntry, field |-> "none", fidx |-> 0]

VFlush(st) == IF st.has /\ st.cur.msgid # <<>> THEN Append(st.entries, st.cur) ELSE st.entries

VParseComment(cur, line) ==
    LET c1 == [cur EXCEPT !.comments = Append(@, line)]
        c2 == IF StartsWith(line, Kw.flags \o <<SP>>) /\ Contains(line, FUZZY)
              THEN [c1 EXCEPT !.fuzzy = TRUE] ELSE c1
    IN  IF StartsWith(line, Kw.refs \o <<SP>>)
        THEN [c2 EXCEPT !.references = Append(@, From(line, 3))]
        ELSE c2

VParseLine(st, line, line_number) ==
    IF Strip(line) = <<>>
    THEN [entries |-> VFlush(st), has |-> FALSE, cur |-> VNewPOEntry,
          field |-> "none", fidx |-> 0]
    ELSE
    LET cur == IF st.has THEN st.cur ELSE [VNewPOEntry EXCEPT !.line_number = line_number]
        s1  == [st EXCEPT !.has = TRUE, !.cur = cur]
    IN
    IF StartsWith(line, Kw.comment)
    THEN [s1 EXCEPT !.cur = VParseComment(cur, line)]
    ELSE IF StartsWith(line, Kw.msgid)
    THEN LET value == Strip(From(line, 6))
         IN  IF Quoted(value)
             THEN [s1 EXCEPT !.field = "msgid",
                             !.cur = [cur EXCEPT !.msgid = unescape_po_string(Inner(value))]]
             ELSE [s1 EXCEPT !.field = "msgid"]
    ELSE IF StartsWith(line, Kw.msgid_plural)
    THEN LET value == Strip(From(line, 13))
         IN  IF Quoted(value)
             THEN [s1 EXCEPT !.field = "msgid_plural",
                             !.cur = [cur EXCEPT !.msgid_plural = unescape_po_string(Inner(value))]]
             ELSE [s1 EXCEPT !.field = "msgid_plural"]
    ELSE IF StartsWith(line, Kw.msgstr)
    THEN LET value == Strip(From(line, 7))
         IN  IF Quoted(value)
             THEN [s1 EXCEPT !.field = "msgstr",
                             !.cur = [cur EXCEPT !.msgstr = unescape_po_string(Inner(value))]]
             ELSE [s1 EXCEPT !.field = "msgstr"]
    ELSE IF StartsWith(line, Kw.msgstr_br)
    THEN IF PluralMatch(line)
         THEN LET idx == PluralIdx(line)
                  pl  == PadPlural(cur.msgstr_plural, idx)
              IN  [s1 EXCEPT !.field = "msgstr[", !.fidx = idx,
                             !.cur = [cur EXCEPT !.msgstr_plural =
                                 [pl EXCEPT ![idx + 1] = unescape_po_string(PluralValue(line))]]]
         ELSE s1
    ELSE IF Quoted(line)
    THEN LET value == unescape_po_string(Inner(line))
         IN  IF st.field = "msgid" THEN [s1 EXCEPT !.cur = [cur EXCEPT !.msgid = @ \o value]]
             ELSE IF st.field = "msgid_plural"
             THEN [s1 EXCEPT !.cur = [cur EXCEPT !.msgid_plural = @ \o value]]
             ELSE IF st.field = "msgstr" THEN [s1 EXCEPT !.cur = [cur EXCEPT !.msgstr = @ \o value]]
             ELSE IF st.field = "msgstr["
             THEN [s1 EXCEPT !.cur = [cur EXCEPT !.msgstr_plural[st.fidx + 1] = @ \o value]]
             ELSE s1
    ELSE s1

RECURSIVE VParseFrom(_, _, _)
VParseFrom(st, lines, k) ==
    IF k > Len(lines) THEN st ELSE VParseFrom(VParseLine(st, lines[k], k), lines, k + 1)

v_parse_po_file(lines) == VFlush(VParseFrom(VParseInit, lines, 1))

(***************************************************************************)
(* validate_entry (validate_translations.py)                               *)
(***************************************************************************)
\* re.findall(r'%[sdf]', text)
RECURSIVE FindPrintf(_)
FindPrintf(text) ==
    IF Len(text) < 2 THEN <<>>
    ELSE IF text[1] = "%" /\ text[2] \in {"s", "d", "f"}
         THEN <<SubSeq(text, 1, 2)>> \o FindPrintf(From(text, 2))
         ELSE FindPrintf(Tail(text))

\* re.search(r'%[1-9]', text)
HasNumbered(text) == \E i \in 1..(Len(text) - 1) : text[i] = "%" /\ IsDigit(text[i + 1]) /\ text[i + 1] # "0"

\* re.search(rf'\b{term}\b', text, re.IGNORECASE)
HasTerm(text, term) ==
    \E i \in 1..(Len(text) - Len(term) + 1) :
        /\ Lower(SubSeq(text, i, i + Len(term) - 1)) = Lower(term)
        /\ (i = 1 \/ ~IsWordChar(text[i - 1]))
        /\ (i + Len(term) - 1 = Len(text) \/ ~IsWordChar(text[i + Len(term)]))

\* check 1: the errors of the loop over range(1, 10), in its order
PlaceholderErrors(entry) ==
    Flatten([i \in 1..9 |->
        LET pattern      == <<"%", Digits[i + 1]>>
            msgid_count  == Count(entry.msgid, pattern)
            msgstr_count == Count(entry.msgstr, pattern)
        IN  IF msgid_count # msgstr_count
            THEN <<Finding("PLACEHOLDER_MISMATCH", entry.line_number,
                           <<pattern>>, msgid_count, msgstr_count)>>
            ELSE <<>>])

\* check 2: variant that reports the format only when the counts agree
WrongPlaceholderErrors_unlessMismatch(entry) ==
    IF HasNumbered(entry.msgid) /\ FindPrintf(entry.msgstr) # <<>>
       /\ PlaceholderErrors(entry) = <<>>
    THEN <<Finding("WRONG_PLACEHOLDER_FORMAT", entry.line_number,
                   FindPrintf(entry.msgstr), 0, 0)>>
    ELSE <<>>

\* check 2
WrongPlaceholderErrors(entry) ==
    IF HasNumbered(entry.msgid) /\ FindPrintf(entry.msgstr) # <<>>
    THEN <<Finding("WRONG_PLACEHOLDER_FORMAT", entry.line_number,
                   FindPrintf(entry.msgstr), 0, 0)>>
    ELSE <<>>

\* check 3: variant that knows no mistranslation
FoundMistranslation_none(entry, brand) == <<>>

\* check 3: found_mistranslation for a brand, <<>> standing for None
FoundMistranslation(entry, brand) ==
    LET alts == Mistranslations(brand)
        hits == {a \in 1..Len(alts) : Contains(entry.msgstr, alts[a])}
    IN  IF hits = {} THEN <<>>
        ELSE alts[CHOOSE a \in hits : \A b \in hits : a <= b]

BrandLost(entry, brand) == Contains(entry.msgid, brand) /\ ~Contains(entry.msgstr, brand)

\* check 3: the errors of the loop over BRAND_NAMES, in its order
BrandErrors(entry) ==
    Flatten([k \in 1..Len(BRAND_NAMES) |->
        LET brand == BRAND_NAMES[k]
        IN  IF BrandLost(entry, brand) /\ FoundMistranslation(entry, brand) # <<>>
            THEN <<Finding("BRAND_NAME_TRANSLATED", entry.line_number,
                           <<brand, FoundMistranslation(entry, brand)>>, 0, 0)>>
            ELSE <<>>])

\* check 3: the warnings of the loop over BRAND_NAMES, in its order
BrandWarnings(entry) ==
    Flatten([k \in 1..Len(BRAND_NAMES) |->
        LET brand == BRAND_NAMES[k]
        IN  IF BrandLost(entry, brand) /\ FoundMistranslation(entry, brand) = <<>>
            THEN <<Finding("BRAND_NAME_MISSING", entry.line_number, <<brand>>, 0, 0)>>
            ELSE <<>>])

\* check 4: the warnings of the loop over TECHNICAL_TERMS, in its order
TermWarnings(entry) ==
    Flatten([k \in 1..Len(TECHNICAL_TERMS) |->
        LET term == TECHNICAL_TERMS[k]
        IN  IF HasTerm(entry.msgid, term) /\ ~HasTerm(entry.msgstr, term)
            THEN <<Finding("TECHNICAL_TERM_TRANSLATED", entry.line_number, <<term>>, 0, 0)>>
            ELSE <<>>])

\* check 5
NewlineWarnings(entry) ==
    LET msgid_newlines  == Count(entry.msgid, <<NL>>)
        msgstr_newlines == Count(entry.msgstr, <<NL>>)
    IN  IF msgid_newlines # msgstr_newlines
        THEN <<Finding("NEWLINE_MISMATCH", entry.line_number, <<>>,
                       msgid_newlines, msgstr_newlines)>>
        ELSE <<>>

\* variant that goes on with the checks after the EMPTY_TRANSLATION warning
validate_entry_noReturn(entry, result) ==
    IF entry.msgid = <<>> THEN result
    ELSE [result EXCEPT
             !.errors   = @ \o PlaceholderErrors(entry) \o WrongPlaceholderErrors(entry)
                            \o BrandErrors(entry),
             !.warnings = @ \o (IF entry.msgstr = <<>>
                                THEN <<Finding("EMPTY_TRANSLATION", entry.line_number,
                                               <<Take(entry.msgid, 50)>>, 0, 0)>>
                                ELSE <<>>)
                            \o BrandWarnings(entry) \o TermWarnings(entry)
                            \o NewlineWarnings(entry)]

\* the two buckets fill independently, each in the order of the checks
validate_entry(entry, result) ==
    IF entry.msgid = <<>> THEN result
    ELSE IF entry.msgstr = <<>>
    THEN add_warning(result, Finding("EMPTY_TRANSLATION", entry.line_number,
                                     <<Take(entry.msgid, 50)>>, 0, 0))
    ELSE [result EXCEPT
             !.errors   = @ \o PlaceholderErrors(entry) \o WrongPlaceholderErrors(entry)
                            \o BrandErrors(entry),
             !.warnings = @ \o BrandWarnings(entry) \o TermWarnings(entry)
                            \o NewlineWarnings(entry)]

(***************************************************************************)
(* check_duplicates, validate_language (validate_translations.py)          *)
(***************************************************************************)
DuplicateMinLen == 10

\* variant that files the short translations too
Grouped_anyLength(e) == e.msgstr # <<>> /\ e.msgid # <<>>

\* the entries check_duplicates files under their msgstr
Grouped(e) == e.msgstr # <<>> /\ e.msgid # <<>> /\ Len(e.msgstr) > DuplicateMinLen

\* the dict's keys in insertion order: the first entry of each msgstr
RECURSIVE DuplicateFrom(_, _, _)
DuplicateFrom(ents, result, k) ==
    IF k > Len(ents) THEN result
    ELSE LET e       == ents[k]
             isFirst == Grouped(e) /\ \A j \in 1..(k - 1) : ~(Grouped(ents[j]) /\ ents[j].msgstr = e.msgstr)
             group   == SelectSeq(ents, LAMBDA x : Grouped(x) /\ x.msgstr = e.msgstr)
             msgids  == {group[i].msgid : i \in 1..Len(group)}
         IN  DuplicateFrom(ents,
                 IF isFirst /\ Len(group) > 1 /\ Cardinality(msgids) > 1
                 THEN add_warning(result,
                          Finding("DUPLICATE_TRANSLATION", 0,
                                  [i \in 1..Min(3, Len(group)) |-> Take(group[i].msgid, 30)]
                                  \o <<Take(e.msgstr, 40)>>,
                                  Len(group), Cardinality(msgids)))
                 ELSE result,
                 k + 1)

check_duplicates(ents, result) == DuplicateFrom(ents, result, 1)

RECURSIVE ValidateFrom(_, _, _)
ValidateFrom(ents, result, k) ==
    IF k > Len(ents) THEN result
    ELSE ValidateFrom(ents, validate_entry(ents[k], result), k + 1)

\* the two info lines validate_language adds after parsing
ParseInfo(ents, result) ==
    LET translated == Cardinality({i \in 1..Len(ents) : ents[i].msgstr # <<>> /\ ents[i].msgid # <<>>})
        fuzzy      == Cardinality({i \in 1..Len(ents) : ents[i].fuzzy})
        empty      == Cardinality({i \in 1..Len(ents) : ents[i].msgstr = <<>> /\ ents[i].msgid # <<>>})
    IN  add_info(add_info(result, Finding("PARSE", 0, <<>>, Len(ents), 0)),
                 Finding("STATS", 0, <<IntToStr(translated), IntToStr(fuzzy), IntToStr(empty)>>, 0, 0))

\* the result for an existing file (None for a missing file is the caller's case)
validate_language(lines) ==
    LET ents == v_parse_po_file(lines)
    IN  check_duplicates(ents, ValidateFrom(ents, ParseInfo(ents, NewValidationResult), 1))

(***************************************************************************)
(* main() of validate_translations.py, as translate.py runs it: for one    *)
(* language, with --summary.  Standard output is one string.               *)
(***************************************************************************)
LangCode == <<"f", "r">>

RuleWidth == 60

Rule == [i \in 1..RuleWidth |-> "="]

\* the texts main() of validate_translations.py prints
Msg ==
    [validating     |-> <<"V", "a", "l", "i", "d", "a", "t", "i", "n", "g", " ">>,
     languages      |-> <<" ", "l", "a", "n", "g", "u", "a", "g", "e", "(", "s", ")", ".", ".", ".">>,
     pass           |-> <<"<U+2713>">> \o <<" ", "P", "A", "S", "S">>,
     fail           |-> <<"<U+2717>">> \o <<" ", "F", "A", "I", "L">>,
     errors         |-> <<" ", "e", "r", "r", "o", "r", "s", ",", " ">>,
     warnings       |-> <<" ", "w", "a", "r", "n", "i", "n", "g", "s", ")">>,
     not_found      |-> <<":", " ", "F", "i", "l", "e", " ", "n", "o", "t", " ", "f", "o", "u", "n", "d", ":", " ">> \o <<"<po_path>">>,
     summary        |-> <<"S", "U", "M", "M", "A", "R", "Y">>,
     validated      |-> <<"L", "a", "n", "g", "u", "a", "g", "e", "s", " ", "v", "a", "l", "i", "d", "a", "t", "e", "d", ":", " ">>,
     total_errors   |-> <<"T", "o", "t", "a", "l", " ", "e", "r", "r", "o", "r", "s", ":", " ">>,
     total_warnings |-> <<"T", "o", "t", "a", "l", " ", "w", "a", "r", "n", "i", "n", "g", "s", ":", " ">>,
     failed         |-> <<"F", "a", "i", "l", "e", "d", " ", "l", "a", "n", "g", "u", "a", "g", "e", "s", ":", " ">>,
     all_passed     |-> <<"A", "l", "l", " ", "l", "a", "n", "g", "u", "a", "g", "e", "s", " ", "p", "a", "s", "s", "e", "d", " ", "v", "a", "l", "i", "d", "a", "t", "i", "o", "n", "!">>]

\* the texts run_validation (translate.py) looks for in the output, and the one
\* it returns when the validator script is missing
RunText ==
    [pass      |-> <<"P", "A", "S", "S">>,
     error     |-> <<"e", "r", "r", "o", "r">>,
     no_script |-> <<"V", "a", "l", "i", "d", "a", "t", "i", "o", "n", " ", "s", "c", "r", "i", "p", "t", " ", "n", "o", "t", " ", "f", "o", "u", "n", "d">>]

\* print(): each line followed by a newline
RECURSIVE PrintLines(_)
PrintLines(lines) ==
    IF lines = <<>> THEN <<>> ELSE lines[1] \o <<NL>> \o PrintLines(Tail(lines))

\* lines 391-403: the line of one language under --summary
StatusLine(result) ==
    <<SP, SP>> \o LangCode \o <<":", SP>>
    \o (IF passed(result) THEN Msg.pass ELSE Msg.fail)
    \o <<SP, "(">> \o IntToStr(Len(result.errors)) \o Msg.errors
    \o IntToStr(Len(result.warnings)) \o Msg.warnings

\* lines 424-437: the summary and the exit status
SummaryLines(total_errors, total_warnings, failed) ==
    << <<NL>> \o Rule, Msg.summary, Rule,
       Msg.validated \o IntToStr(1),
       Msg.total_errors \o IntToStr(total_errors),
       Msg.total_warnings \o IntToStr(total_warnings),
       IF failed THEN Msg.failed \o LangCode ELSE Msg.all_passed >>

\* the run for a language whose file is missing (validate_language returns None)
ValidatorMissing ==
    [stdout    |-> PrintLines(<<Msg.validating \o IntToStr(1) \o Msg.languages \o <<NL>>,
                                <<SP, SP>> \o LangCode \o Msg.not_found>>
                              \o SummaryLines(0, 0, TRUE)),
     exit_code |-> 1]

\* the run for a language whose file gave the result
ValidatorReport(result) ==
    [stdout    |-> PrintLines(<<Msg.validating \o IntToStr(1) \o Msg.languages \o <<NL>>,
                                StatusLine(result)>>
                              \o SummaryLines(Len(result.errors), Len(result.warnings),
                                              ~passed(result))),
     exit_code |-> IF passed(result) THEN 0 ELSE 1]

validator_main(exists, lines) ==
    IF exists THEN ValidatorReport(validate_language(lines)) ELSE ValidatorMissing

\* run_validation (translate.py): the validator runs as a subprocess
run_validation(script_exists, exists, lines) ==
    IF ~script_exists
    THEN [passed |-> FALSE, output |-> RunText.no_script]
    ELSE LET run == validator_main(exists, lines)
         IN  [passed |-> Contains(run.stdout, RunText.pass) /\ ~Contains(Lower(run.stdout), RunText.error),
              output |-> run.stdout]

(***************************************************************************)
(* main() of translate.py.  Command-line arguments are chosen where main() *)
(* first reads them.  The process position pc is                           *)
(*   "start"        before the PO file is looked up                        *)
(*   "parsed"       entries parsed, command not yet dispatched             *)
(*   "extract_loop" inside the loop over all batches of extract            *)
(*   "apply_files"  inside/after the loop over the file arguments of apply *)
(*   "written"      apply has written the PO file                          *)
(*   "exit"         the process has ended with exit_code                   *)
(***************************************************************************)
NoValidation == [ran |-> FALSE, passed |-> FALSE, output |-> <<>>]

\* the values of main()'s variables before main() has assigned them
MainFresh ==
    /\ entries = <<>>
    /\ orig = <<>>
    /\ xargs = [mode |-> "empty", batch_size |-> 1]
    /\ loop_batch = 0
    /\ exported = <<>>
    /\ nfiles = 0
    /\ imports = <<>>
    /\ all_translations = EmptyDict
    /\ all_errors = <<>>
    /\ all_skipped = {}
    /\ verified = FALSE
    /\ applied = 0
    /\ validation = NoValidation
    /\ exit_code = -1

\* the same, with no PO file
MainIdle == po_exists = FALSE /\ po = <<>> /\ MainFresh

Exit(code) == pc' = "exit" /\ exit_code' = code

\* lines 657-667: the PO file is looked up and parsed
MainParse ==
    /\ pc = "start"
    /\ IF ~po_exists
       THEN /\ Exit(1)
            /\ UNCHANGED <<entries, orig>>
       ELSE /\ entries' = parse_po_file(po)
            /\ orig' = parse_po_file(po)
            /\ pc' = "parsed"
            /\ UNCHANGED exit_code
    /\ UNCHANGED <<po_exists, po, xargs, loop_batch, exported, nfiles, imports,
                   all_translations, all_errors, all_skipped, verified, applied, validation, auxVars>>

\* lines 678-701: the status command only prints
MainStatus ==
    /\ pc = "parsed"
    /\ Exit(0)
    /\ UNCHANGED <<po_exists, po, entries, orig, xargs, loop_batch, exported, nfiles, imports,
                   all_translations, all_errors, all_skipped, verified, applied, validation, auxVars>>

\* export_json: the document written for one batch (metadata and entries)
ExportDoc(n, records, total_batches, mode) ==
    [batch |-> n, total_batches |-> total_batches, entry_count |-> Len(records),
     mode |-> mode, entries |-> records]

\* lines 703-744: the extract command; batch = 0 stands for no --batch
MainExtract(mode, batch, batch_size, dry_run) ==
    LET translatable == filter_entries(entries, mode)
        one          == extract_batch(entries, batch, batch_size,
                                      find_similar_strings(entries), mode)
    IN
    /\ pc = "parsed"
    /\ xargs' = [mode |-> mode, batch_size |-> batch_size]
    /\ IF Len(translatable) = 0
       THEN Exit(0) /\ UNCHANGED <<exported, loop_batch>>
       ELSE IF batch # 0
       THEN IF one[1] = <<>>
            THEN Exit(1) /\ UNCHANGED <<exported, loop_batch>>
            ELSE /\ Exit(0)
                 /\ exported' = IF dry_run THEN exported
                                ELSE Append(exported, ExportDoc(batch, one[1],
                                        TotalBatches(Len(translatable), batch_size), mode))
                 /\ UNCHANGED loop_batch
       ELSE IF dry_run
       THEN Exit(0) /\ UNCHANGED <<exported, loop_batch>>
       ELSE /\ pc' = "extract_loop"
            /\ loop_batch' = 1
            /\ UNCHANGED <<exported, exit_code>>
    /\ UNCHANGED <<po_exists, po, entries, orig, nfiles, imports,
                   all_translations, all_errors, all_skipped, verified, applied, validation, auxVars>>

\* lines 737-744: one pass of the loop over range(1, total_batches + 1)
MainExtractLoop ==
    LET total_batches == TotalBatches(Len(filter_entries(entries, xargs.mode)), xargs.batch_size)
        one == extract_batch(entries, loop_batch, xargs.batch_size,
                             find_similar_strings(entries), xargs.mode)
    IN
    /\ pc = "extract_loop"
    /\ IF loop_batch <= total_batches
       THEN /\ exported' = Append(exported, ExportDoc(loop_batch, one[1], total_batches, xargs.mode))
            /\ loop_batch' = loop_batch + 1
            /\ UNCHANGED <<pc, exit_code>>
       ELSE /\ Exit(0)
            /\ UNCHANGED <<exported, loop_batch>>
    /\ UNCHANGED <<po_exists, po, entries, orig, xargs, nfiles, imports,
                   all_translations, all_errors, all_skipped, verified, applied, validation, auxVars>>

\* lines 746-750: apply without file arguments
MainApplyNoFiles ==
    /\ pc = "parsed"
    /\ Exit(1)
    /\ UNCHANGED <<po_exists, po, entries, orig, xargs, loop_batch, exported, nfiles, imports,
                   all_translations, all_errors, all_skipped, verified, applied, validation, auxVars>>

\* lines 757-767: one pass of the loop over args.files.  A file argument is
\* [exists, parseable, doc]; json.load raises on an unparseable document and
\* the uncaught exception ends the process with status 1.
MainApplyFile(file) ==
    LET got == import_translations(file.doc, entries)
    IN
    /\ pc \in {"parsed", "apply_files"}
    /\ nfiles < MaxFiles
    /\ nfiles' = nfiles + 1
    /\ IF ~file.exists
       THEN /\ pc' = "apply_files"
            /\ UNCHANGED <<imports, all_translations, all_errors, all_skipped, exit_code>>
       ELSE IF ~file.parseable
       THEN /\ Exit(1)
            /\ UNCHANGED <<imports, all_translations, all_errors, all_skipped>>
       ELSE /\ pc' = "apply_files"
            /\ imports' = Append(imports, [doc |-> file.doc, got |-> got])
            /\ all_translations' = DictUpdate(all_translations, got.translations)
            /\ all_errors' = all_errors \o got.errors
            /\ all_skipped' = all_skipped \cup got.skipped_verified
            /\ UNCHANGED exit_code
    /\ UNCHANGED <<po_exists, po, entries, orig, xargs, loop_batch, exported,
                   verified, applied, validation, auxVars>>

\* lines 769-771: the loop is over and nothing was collected
MainApplyNothing ==
    /\ pc = "apply_files"
    /\ DOMAIN all_translations = {}
    /\ Exit(1)
    /\ UNCHANGED <<po_exists, po, entries, orig, xargs, loop_batch, exported, nfiles, imports,
                   all_translations, all_errors, all_skipped, verified, applied, validation, auxVars>>

\* lines 781-793: --dry-run only prints
MainApplyDryRun ==
    /\ pc = "apply_files"
    /\ DOMAIN all_translations # {}
    /\ Exit(0)
    /\ UNCHANGED <<po_exists, po, entries, orig, xargs, loop_batch, exported, nfiles, imports,
                   all_translations, all_errors, all_skipped, verified, applied, validation, auxVars>>

\* lines 795-811: apply_translations, the fuzzy policy, write_po_file
MainApplyWrite(is_verified_run) ==
    LET done         == apply_translations(entries, all_translations)
        remove_fuzzy == IF is_verified_run THEN DOMAIN all_translations ELSE {}
        add_fuzzy    == IF is_verified_run THEN {} ELSE DOMAIN all_translations
    IN
    /\ pc = "apply_files"
    /\ DOMAIN all_translations # {}
    /\ verified' = is_verified_run
    /\ entries' = done[1]
    /\ applied' = done[2]
    /\ po' = write_po_file(done[1], remove_fuzzy, add_fuzzy)
    /\ pc' = "written"
    /\ UNCHANGED <<po_exists, orig, xargs, loop_batch, exported, nfiles, imports,
                   all_translations, all_errors, all_skipped, validation, exit_code, auxVars>>

\* lines 813-821: the validation after apply; main() then returns, whatever
\* the validation said
MainAfterWrite(no_validate, script_exists) ==
    /\ pc = "written"
    /\ validation' = IF no_validate THEN NoValidation
                     ELSE LET run == run_validation(script_exists, po_exists, po)
                          IN  [ran |-> TRUE, passed |-> run.passed, output |-> run.output]
    /\ Exit(0)
    /\ UNCHANGED <<po_exists, po, entries, orig, xargs, loop_batch, exported, nfiles, imports,
                   all_translations, all_errors, all_skipped, verified, applied, auxVars>>

(* The inputs of specification Spec                                        *)
(***************************************************************************)
\* the source strings of the entries of a file, by position
Ids == << <<"a", NL, "b">>, <<"c">>, <<"d">>, <<"e">>, <<"f">>, <<"g">> >>

T_old == <<"o">>
T_x   == <<"x">>
T_y   == <<"y", NL, "z">>

HeaderBlock == << Kw.msgid \o <<QQ, QQ>>, Kw.msgstr \o <<QQ, QQ>> >>

RefLine == Kw.refs \o <<SP>> \o ContextWord.main_lua \o <<":", "1">>

EntryStates == {"empty", "empty_fuzzy", "fuzzy", "verified"}

\* the lines of one entry of the PO file in the given state
EntryBlock(id, state) ==
    <<RefLine>>
    \o (IF state \in {"empty_fuzzy", "fuzzy"} THEN <<Kw.flags \o <<SP>> \o FUZZY>> ELSE <<>>)
    \o <<Kw.msgid \o QuotedLine(escape_po_string(id))>>
    \o <<Kw.msgstr \o QuotedLine(IF state \in {"fuzzy", "verified"} THEN T_old ELSE <<>>)>>

\* blocks separated by one empty line
RECURSIVE JoinBlocks(_)
JoinBlocks(blocks) ==
    IF blocks = <<>> THEN <<>>
    ELSE IF Len(blocks) = 1 THEN blocks[1]
    ELSE blocks[1] \o << <<>> >> \o JoinBlocks(Tail(blocks))

\* the header entry and up to MaxEntries entries with distinct ids
RegularFiles ==
    {JoinBlocks(<<HeaderBlock>> \o [k \in 1..Len(sts) |-> EntryBlock(Ids[k], sts[k])]) :
        sts \in SeqsUpTo(EntryStates, MaxEntries)}

\* files without the header entry
HeaderlessFiles == {EntryBlock(Ids[1], st) : st \in EntryStates}

\* files in which two entries share their source string
DuplicateIdFiles ==
    {JoinBlocks(<<HeaderBlock, EntryBlock(Ids[2], "verified"), EntryBlock(Ids[2], st)>>) :
        st \in {"empty", "fuzzy"}}

\* files with a verified entry whose translation, a backslash and the letter n,
\* is split over a continuation line
EscapedFiles ==
    {JoinBlocks(<<HeaderBlock,
                  <<RefLine, Kw.msgid \o QuotedLine(Ids[2]),
                    Kw.msgstr \o QuotedLine(<<BS, BS>>), QuotedLine(<<"n">>)>>,
                  EntryBlock(Ids[1], "empty")>>)}

\* a file without the header entry whose first entry has its source string
\* in multi-line form
MultiLineFirstFiles ==
    {<<RefLine, Kw.msgid \o <<QQ, QQ>>, QuotedLine(<<"a", BS, "n">>), QuotedLine(<<"b">>),
       Kw.msgstr \o <<QQ, QQ>>>>}

\* a file with a fuzzy entry that has plural forms and no singular translation
PluralFiles ==
    {JoinBlocks(<<HeaderBlock,
                  <<RefLine, Kw.flags \o <<SP>> \o FUZZY,
                    Kw.msgid \o QuotedLine(Ids[2]),
                    Kw.msgid_plural \o QuotedLine(<<"c", "s">>),
                    Kw.msgstr_br \o <<"0", "]", SP>> \o QuotedLine(T_old),
                    Kw.msgstr_br \o <<"1", "]", SP>> \o QuotedLine(T_x)>>>>)}

PoFiles == RegularFiles \cup HeaderlessFiles \cup DuplicateIdFiles \cup EscapedFiles
           \cup MultiLineFirstFiles \cup PluralFiles

Item(id, tr)  == [has_msgid |-> TRUE, msgid |-> id, has_msgstr |-> TRUE, msgstr |-> tr]
ItemNoMsgstr(id) == [has_msgid |-> TRUE, msgid |-> id, has_msgstr |-> FALSE, msgstr |-> <<>>]
ItemNoMsgid   == [has_msgid |-> FALSE, msgid |-> <<>>, has_msgstr |-> TRUE, msgstr |-> T_x]

DocOf(items) == [has_translations |-> TRUE, translations |-> items,
                 has_entries |-> FALSE, entries |-> <<>>]

FileOf(doc) == [exists |-> TRUE, parseable |-> TRUE, doc |-> doc]

\* the file arguments of apply: documents that translate one id in two ways,
\* mix known, unknown and id-less items, omit or empty the translation, use
\* the "entries" key; a missing file; a file that is not JSON
FileArgs ==
    {FileOf(DocOf(<<Item(Ids[1], T_x)>>)),
     FileOf(DocOf(<<Item(Ids[1], T_y)>>)),
     FileOf(DocOf(<<Item(Ids[2], T_x), Item(<<"u">>, T_x), ItemNoMsgid>>)),
     FileOf(DocOf(<<ItemNoMsgstr(Ids[1])>>)),
     FileOf(DocOf(<<Item(Ids[2], <<>>)>>)),
     FileOf([has_translations |-> FALSE, translations |-> <<>>,
             has_entries |-> TRUE, entries |-> <<Item(Ids[1], T_x)>>]),
     [exists |-> FALSE, parseable |-> FALSE, doc |-> DocOf(<<>>)],
     [exists |-> TRUE, parseable |-> FALSE, doc |-> DocOf(<<>>)]}

Modes == {"empty", "fuzzy", "all"}

\* the values of the variables of the other specifications while they do not run
EscIdle == s_in = <<>> /\ s_esc = <<>> /\ s_out = <<>>

BatchIdle == filtered = [mode \in Modes |-> <<>>]

NoReport == [stdout |-> <<>>, exit_code |-> -1]

ValIdle == v_entries = <<>> /\ v_idx = 0 /\ v_result = NewValidationResult /\ v_report = NoReport

Init ==
    /\ pc = "start"
    /\ \/ po_exists = FALSE /\ po = <<>>
       \/ po_exists = TRUE /\ po \in PoFiles
    /\ MainFresh
    /\ EscIdle /\ BatchIdle /\ ValIdle

Next ==
    \/ MainParse
    \/ MainStatus
    \/ \E mode \in Modes, batch \in 0..(MaxEntries + 1), batch_size \in 1..MaxBatchSize,
          dry_run \in BOOLEAN : MainExtract(mode, batch, batch_size, dry_run)
    \/ MainExtractLoop
    \/ MainApplyNoFiles
    \/ \E file \in FileArgs : MainApplyFile(file)
    \/ MainApplyNothing
    \/ MainApplyDryRun
    \/ \E v \in BOOLEAN : MainApplyWrite(v)
    \/ \E no_validate \in BOOLEAN, script_exists \in BOOLEAN :
          MainAfterWrite(no_validate, script_exists)

Spec == Init /\ [][Next]_vars

(***************************************************************************)
(* Properties of specification Spec                                        *)
(***************************************************************************)
\* the entries the PO file on disk decodes to
Decoded == parse_po_file(po)

\* the entry at position i is one apply has to write: its id is a key of the
\* merged mapping and it was not verified when the file was parsed
Target(i) == orig[i].msgid \in DOMAIN all_translations /\ ~is_verified(orig[i])

\* the translation the merged mapping holds for the entry at position i
Supplied(i) == all_translations[orig[i].msgid]

\* C1: after an apply without --verified, every entry that was written with a
\* non-empty translation carries the fuzzy flag in the serialized file and so
\* does not decode as verified, whatever its state was before.
C1_UnverifiedApplyMarksFuzzy ==
    (pc = "written" /\ ~verified) =>
        \A i \in 1..Len(orig) :
            (Target(i) /\ Supplied(i) # <<>>) =>
                /\ i <= Len(Decoded)
                /\ is_fuzzy(Decoded[i])
                /\ ~is_verified(Decoded[i])

\* C2: an entry that is verified when the file is decoded is returned by
\* filter_entries in no mode, is left as it is by import and apply, and has
\* the same translation and the same flags in the serialized output, also
\* when its id is a key of the mapping given to apply.
C2_VerifiedNeverTouched ==
    \A i \in 1..Len(orig) :
        is_verified(orig[i]) =>
            /\ \A mode \in Modes :
                   \A k \in 1..Len(filter_entries(orig, mode)) :
                       filter_entries(orig, mode)[k] # orig[i]
            /\ entries[i] = orig[i]
            /\ pc = "written" =>
                   /\ i <= Len(Decoded)
                   /\ Decoded[i].msgstr = orig[i].msgstr
                   /\ Decoded[i].flags = orig[i].flags

\* C3: after an apply with --verified, no written entry has the fuzzy flag in
\* the serialized file, and a written entry that was fuzzy and translated and
\* got a non-empty translation decodes as verified.
C3_VerifiedApplyClearsFuzzy ==
    (pc = "written" /\ verified) =>
        \A i \in 1..Len(orig) :
            Target(i) =>
                /\ i <= Len(Decoded)
                /\ ~is_fuzzy(Decoded[i])
                /\ (is_fuzzy(orig[i]) /\ is_translated(orig[i]) /\ Supplied(i) # <<>>)
                       => is_verified(Decoded[i])

\* the outcome the import owes an item of a document, given the parsed entries:
\* the entry an id matches is the last one carrying it
ItemMissing(item) == ~item.has_msgid \/ item.msgid = <<>>

ItemUnknown(item) ==
    ~ItemMissing(item) /\ \A i \in 1..Len(orig) : orig[i].msgid # item.msgid

ItemProtected(item) ==
    /\ ~ItemMissing(item)
    /\ \E i \in 1..Len(orig) :
           /\ orig[i].msgid = item.msgid
           /\ \A j \in (i + 1)..Len(orig) : orig[j].msgid # item.msgid
           /\ is_verified(orig[i])

ItemsWhere(items, P(_)) == {k \in 1..Len(items) : P(items[k])}

ErrorsOfKind(errors, kind) == Cardinality({k \in 1..Len(errors) : errors[k].kind = kind})

\* C8: import_translations gives every item one outcome: one error for an item
\* without id, one error for an item whose id matches no entry, a place in
\* skipped_verified and none in the mapping for an item whose entry is
\* verified; only the other items are keys of the mapping.
C8_ImportClassifiesItems ==
    \A n \in 1..Len(imports) :
        LET items == DocItems(imports[n].doc)
            got   == imports[n].got
            rest  == {k \in 1..Len(items) :
                         ~ItemMissing(items[k]) /\ ~ItemUnknown(items[k]) /\ ~ItemProtected(items[k])}
        IN  /\ ErrorsOfKind(got.errors, "Entry missing msgid")
                   = Cardinality(ItemsWhere(items, ItemMissing))
            /\ ErrorsOfKind(got.errors, "Unknown msgid")
                   = Cardinality(ItemsWhere(items, ItemUnknown))
            /\ Len(got.errors) = Cardinality(ItemsWhere(items, ItemMissing))
                                   + Cardinality(ItemsWhere(items, ItemUnknown))
            /\ got.skipped_verified = {items[k].msgid : k \in ItemsWhere(items, ItemProtected)}
            /\ DOMAIN got.translations \cap got.skipped_verified = {}
            /\ DOMAIN got.translations = {items[k].msgid : k \in {r \in rest : items[r].has_msgstr}}

\* an import met an item without id, an item with an unknown id and an item
\* whose entry is verified, and went on
C8_Witness ==
    \E n \in 1..Len(imports) :
        LET items == DocItems(imports[n].doc)
        IN  /\ ItemsWhere(items, ItemMissing) # {}
            /\ ItemsWhere(items, ItemUnknown) # {}
            /\ ItemsWhere(items, ItemProtected) # {}
            /\ pc = "apply_files"

\* the imports, by position, whose mapping has the id as a key
SetsWith(id) == {n \in 1..Len(imports) : id \in DOMAIN imports[n].got.translations}

LastSetWith(id) == CHOOSE n \in SetsWith(id) : \A m \in SetsWith(id) : m <= n

\* C9: the merged mapping holds, for every id, the translation of the last
\* import that has it; the merged errors are the imports' errors and nothing
\* else; the one apply pass writes that translation.
C9_LaterImportWins ==
    pc \in {"apply_files", "written"} =>
        /\ DOMAIN all_translations = {id \in UNION {DOMAIN imports[n].got.translations :
                                                        n \in 1..Len(imports)} : TRUE}
        /\ \A id \in DOMAIN all_translations :
               all_translations[id] = imports[LastSetWith(id)].got.translations[id]
        /\ all_errors = Flatten([n \in 1..Len(imports) |-> imports[n].got.errors])
        /\ pc = "written" =>
               /\ \A i \in 1..Len(orig) : Target(i) => entries[i].msgstr = Supplied(i)
               /\ applied = Cardinality({i \in 1..Len(orig) : Target(i)})

\* two imports gave one id different translations, and apply has written
C9_Witness ==
    /\ pc = "written"
    /\ \E i \in 1..Len(orig) :
           /\ Target(i)
           /\ \E m \in SetsWith(orig[i].msgid) :
                  /\ m < LastSetWith(orig[i].msgid)
                  /\ imports[m].got.translations[orig[i].msgid] # Supplied(i)
           /\ entries[i].msgstr = Supplied(i)

\* C13: the process ends with a non-zero exit status when the PO file is
\* missing, when apply has no input file, when apply found no translation,
\* and when the validation apply ran after writing the file has failed.
C13_FailuresExitNonZero ==
    /\ [](pc = "exit" =>
            /\ ~po_exists => exit_code # 0
            /\ (nfiles > 0 /\ DOMAIN all_translations = {}) => exit_code # 0
            /\ (validation.ran /\ ~validation.passed) => exit_code # 0)
    /\ [][MainApplyNoFiles => exit_code' # 0]_vars

\* C14: apply writes the PO file only after every file argument was found
\* and parsed (each gave an import) and at least one translation was
\* collected; after a missing file, an unparseable document or an empty
\* translation set the file is not written.
C14_WriteOnlyAfterCleanImport ==
    pc = "written" =>
        /\ Len(imports) = nfiles
        /\ DOMAIN all_translations # {}

\* C18: in the entries a PO file decodes to, an entry is flagged is_header
\* exactly when it is the first one and its id is empty; an entry with an id
\* that is not verified is returned by filter_entries in mode 'all'.
C18_HeaderIffFirstAndEmptyId ==
    \A i \in 1..Len(Decoded) :
        /\ Decoded[i].is_header <=> (i = 1 /\ Decoded[i].msgid = <<>>)
        /\ (Decoded[i].msgid # <<>> /\ (Decoded[i].msgstr = <<>> \/ is_fuzzy(Decoded[i])))
               => Decoded[i] \in Range(filter_entries(Decoded, "all"))

\* C19: the count apply_translations returns is the number of entries it
\* overwrote: those whose id is a key of the mapping and that were not
\* verified; every other entry, a verified one with a key's id included, is
\* as it was and is not counted; with unique ids the count is at most the
\* size of the mapping.
C19_AppliedCountsOverwritten ==
    pc = "written" =>
        /\ Len(entries) = Len(orig)
        /\ \A i \in 1..Len(orig) :
               IF Target(i) THEN entries[i] = [orig[i] EXCEPT !.msgstr = Supplied(i)]
               ELSE entries[i] = orig[i]
        /\ applied = Cardinality({i \in 1..Len(orig) : Target(i)})
        /\ (\A i, j \in 1..Len(orig) : orig[i].msgid = orig[j].msgid => i = j)
               => applied <= Cardinality(DOMAIN all_translations)

\* apply skipped a verified entry whose id is a key of the mapping, wrote
\* another entry and counted that one alone
C19_Witness ==
    /\ pc = "written"
    /\ \E i \in 1..Len(orig) :
           /\ is_verified(orig[i])
           /\ orig[i].msgid \in DOMAIN all_translations
           /\ entries[i] = orig[i]
    /\ applied = 1
    /\ \E i \in 1..Len(orig) : Target(i) /\ entries[i].msgstr # orig[i].msgstr

\* C23: apply_translations adds and deletes no entry and keeps the order;
\* every entry keeps its id, plural id, plural translations, comments,
\* references, flags, line and header mark; an entry that is verified or
\* whose id is no key of the mapping keeps its translation too.
C23_ApplyChangesOnlyTranslations ==
    pc = "written" =>
        /\ Len(entries) = Len(orig)
        /\ \A i \in 1..Len(orig) :
               i <= Len(entries) =>
                   /\ entries[i].msgid = orig[i].msgid
                   /\ entries[i].msgid_plural = orig[i].msgid_plural
                   /\ entries[i].msgstr_plural = orig[i].msgstr_plural
                   /\ entries[i].comments = orig[i].comments
                   /\ entries[i].references = orig[i].references
                   /\ entries[i].flags = orig[i].flags
                   /\ entries[i].line_number = orig[i].line_number
                   /\ entries[i].is_header = orig[i].is_header
                   /\ (is_verified(orig[i]) \/ orig[i].msgid \notin DOMAIN all_translations)
                          => entries[i].msgstr = orig[i].msgstr

\* apply gave a new translation to a fuzzy entry with plural forms
C23_Witness ==
    /\ pc = "written"
    /\ \E i \in 1..Len(orig) :
           /\ orig[i].msgid_plural # <<>>
           /\ Len(orig[i].msgstr_plural) = 2
           /\ is_fuzzy(orig[i])
           /\ entries[i].msgstr # orig[i].msgstr
           /\ entries[i].msgstr_plural = orig[i].msgstr_plural
           /\ entries[i].flags = orig[i].flags

(***************************************************************************)
(* Specification SpecApplyValidate: apply on a file whose entry has        *)
(* numbered placeholders in its source string, then the validator on the   *)
(* file apply has written.                                                 *)
(***************************************************************************)
\* source strings with numbered placeholders; the last one has the text of
\* its first segment again as its final segment
PhIds ==
    {<<"%", "1">>, <<"%", "1", SP, "%", "2">>, <<"%", NL, "1", NL, "%">>}

\* the translations a document supplies
PhTranslations ==
    {<<"%", "1">>, <<>>, <<"%", "2">>, <<"%", "1", SP, "%", "2">>}

PhFiles ==
    {JoinBlocks(<<HeaderBlock, EntryBlock(id, st)>>) : id \in PhIds, st \in {"empty", "fuzzy"}}

PhArgs == {FileOf(DocOf(<<Item(id, tr)>>)) : id \in PhIds, tr \in PhTranslations}

ApplyValidateInit ==
    /\ pc = "start"
    /\ po_exists = TRUE
    /\ po \in PhFiles
    /\ MainFresh
    /\ EscIdle /\ BatchIdle /\ ValIdle

\* validate_language on the PO file apply has written
ApplyValidate ==
    /\ pc = "written"
    /\ v_result' = validate_language(po)
    /\ pc' = "validated"
    /\ UNCHANGED <<mainVars, escVars, batchVars, v_entries, v_idx, v_report>>

ApplyValidateNext ==
    \/ MainParse
    \/ \E file \in PhArgs : MainApplyFile(file)
    \/ MainApplyNothing
    \/ \E v \in BOOLEAN : MainApplyWrite(v)
    \/ \E no_validate \in BOOLEAN, script_exists \in BOOLEAN :
          MainAfterWrite(no_validate, script_exists)
    \/ ApplyValidate

SpecApplyValidate == ApplyValidateInit /\ [][ApplyValidateNext]_vars

\* the token %d, d in 1..9
Token(d) == <<"%", Digits[d + 1]>>

\* C11: when the validation of the file apply has written reports no
\* PLACEHOLDER_MISMATCH error, every entry apply has written has each token
\* %1..%9 as often in its translation as in its source string.
C11_NoMismatchMeansEqualCounts ==
    (pc = "validated"
        /\ \A k \in 1..Len(v_result.errors) : v_result.errors[k].check # "PLACEHOLDER_MISMATCH")
    => \A i \in 1..Len(orig) :
           Target(i) =>
               \A d \in 1..9 :
                   Count(orig[i].msgid, Token(d)) = Count(entries[i].msgstr, Token(d))

\* C20: when the validator script has run after apply, run_validation
\* reports passed exactly when the validator found no error in the file
\* apply has written.
C20_RunValidationFaithful ==
    (pc = "exit" /\ validation.ran /\ validation.output # RunText.no_script) =>
        (validation.passed <=> validate_language(po).errors = <<>>)

(***************************************************************************)
(* Specification SpecCodec: parse_po_file, write_po_file with no fuzzy     *)
(* changes, parse_po_file again, on every text of at most MaxLines lines   *)
(* of CodecLines.                                                          *)
(***************************************************************************)
CodecLines ==
    {<<>>,
     Kw.comment \o <<SP, "n">>,
     Kw.flags \o <<SP>> \o FUZZY,
     Kw.msgid \o QuotedLine(<<"c">>),
     Kw.msgid \o QuotedLine(<<"a", BS, "n", "a">>),
     Kw.msgstr \o QuotedLine(<<"x">>),
     Kw.msgstr \o QuotedLine(<<BS, BS>>),
     QuotedLine(<<"n">>),
     Kw.msgstr \o QuotedLine(<<"a", BS, "n", "a">>),
     RefLine,
     Kw.flags \o <<SP, "x", ",", SP>> \o FUZZY \o <<",", SP, "y">>,
     Kw.flags \o <<SP, "x">>}

CodecInit ==
    /\ pc = "codec_start"
    /\ po_exists = TRUE
    /\ po \in SeqsUpTo(CodecLines, MaxLines)
    /\ MainFresh
    /\ EscIdle /\ BatchIdle /\ ValIdle

codecRest == <<po_exists, xargs, loop_batch, exported, nfiles, imports, all_translations,
               all_errors, all_skipped, verified, applied, validation, exit_code, auxVars>>

CodecDecode ==
    /\ pc = "codec_start"
    /\ entries' = parse_po_file(po)
    /\ orig' = parse_po_file(po)
    /\ pc' = "codec_decoded"
    /\ UNCHANGED <<po, codecRest>>

CodecEncode ==
    /\ pc = "codec_decoded"
    /\ po' = write_po_file(entries, {}, {})
    /\ pc' = "codec_encoded"
    /\ UNCHANGED <<entries, orig, codecRest>>

CodecDecodeAgain ==
    /\ pc = "codec_encoded"
    /\ entries' = parse_po_file(po)
    /\ pc' = "codec_done"
    /\ UNCHANGED <<po, orig, codecRest>>

\* write_po_file as apply without --verified calls it: add_fuzzy_for holds
\* the ids of the entries
CodecEncodeFuzzy ==
    /\ pc = "codec_decoded"
    /\ po' = write_po_file(entries, {}, {entries[i].msgid : i \in 1..Len(entries)} \ {<<>>})
    /\ pc' = "codec_fuzzied"
    /\ UNCHANGED <<entries, orig, codecRest>>

\* write_po_file as apply with --verified calls it: remove_fuzzy_for holds
\* the ids of the entries
CodecEncodeVerified ==
    /\ pc = "codec_decoded"
    /\ po' = write_po_file(entries, {entries[i].msgid : i \in 1..Len(entries)} \ {<<>>}, {})
    /\ pc' = "codec_verified"
    /\ UNCHANGED <<entries, orig, codecRest>>

CodecNext ==
    CodecDecode \/ CodecEncode \/ CodecDecodeAgain \/ CodecEncodeFuzzy \/ CodecEncodeVerified

SpecCodec == CodecInit /\ [][CodecNext]_vars

\* the comment lines of an entry that are not flag lines
OpaqueComments(e) == SelectSeq(e.comments, LAMBDA c : ~StartsWith(c, Kw.flags))

\* C4: decoding, encoding with no fuzzy changes and decoding again gives the
\* entries of the first decode: as many, in the same order, each with the
\* same id, plural id, translation, plural translations and flags and with
\* the same non-flag comment lines.
C4_RoundTrip ==
    pc = "codec_done" =>
        /\ Len(entries) = Len(orig)
        /\ \A i \in 1..Len(orig) :
               i <= Len(entries) =>
                   /\ entries[i].msgid = orig[i].msgid
                   /\ entries[i].msgid_plural = orig[i].msgid_plural
                   /\ entries[i].msgstr = orig[i].msgstr
                   /\ entries[i].msgstr_plural = orig[i].msgstr_plural
                   /\ entries[i].flags = orig[i].flags
                   /\ OpaqueComments(entries[i]) = OpaqueComments(orig[i])

\* the multi-line form of a string after its keyword: the keyword with an
\* empty string, then one quoted line per newline-split segment, each but the
\* final one ending in the \n escape, a final empty segment left out
MultiLineForm(kw, str) ==
    LET parts == Split(str, NL)
        n     == Len(parts)
    IN  <<kw \o <<QQ, QQ>>>>
        \o Flatten([i \in 1..n |->
               IF i < n THEN <<QuotedLine(escape_po_string(parts[i]) \o <<BS, "n">>)>>
               ELSE IF parts[i] # <<>> THEN <<QuotedLine(escape_po_string(parts[i]))>>
               ELSE <<>>])

\* C16: a source string or a translation with a newline is written in the
\* multi-line form, also when a segment before the final one has the text of
\* the final one, and decoding the output gives the string again.
C16_MultiLineSegments ==
    /\ pc = "codec_encoded" =>
           \A i \in 1..Len(entries) :
               /\ NL \in Range(entries[i].msgid)
                      => Contains(po, MultiLineForm(Kw.msgid, entries[i].msgid))
               /\ NL \in Range(entries[i].msgstr)
                      => Contains(po, MultiLineForm(Kw.msgstr, entries[i].msgstr))
    /\ pc = "codec_done" =>
           \A i \in 1..Len(orig) :
               /\ NL \in Range(orig[i].msgid)
                      => (i <= Len(entries) /\ entries[i].msgid = orig[i].msgid)
               /\ NL \in Range(orig[i].msgstr)
                      => (i <= Len(entries) /\ entries[i].msgstr = orig[i].msgstr)

\* the comment lines with a '#, fuzzy' line put after the last reference
\* line, or first when there is no reference line
WithFuzzyLine(comments) ==
    LET refs == {k \in 1..Len(comments) : StartsWith(comments[k], Kw.refs)}
        last == IF refs = {} THEN 0 ELSE CHOOSE k \in refs : \A j \in refs : j <= k
    IN  SubSeq(comments, 1, last) \o <<Kw.flags \o <<SP>> \o FUZZY>>
        \o SubSeq(comments, last + 1, Len(comments))

\* C17: when write_po_file adds fuzzy to an entry without a flags line (the
\* entry is in add_fuzzy_for and not verified), the comment lines it writes
\* for the entry are the entry's comment lines with '#, fuzzy' right after
\* the last '#:' line, or first if there is none.
C17_FuzzyLineAfterReferences ==
    pc = "codec_fuzzied" =>
        \A i \in 1..Len(entries) :
            (/\ entries[i].msgid # <<>>
             /\ ~is_verified(entries[i])
             /\ \A k \in 1..Len(entries[i].comments) :
                    ~StartsWith(entries[i].comments[k], Kw.flags))
            => /\ i <= Len(Decoded)
               /\ Decoded[i].comments = WithFuzzyLine(entries[i].comments)

\* the flags other than fuzzy, in their order
OtherFlags(flags) == SelectSeq(flags, LAMBDA fl : fl # FUZZY)

\* C24: in the text write_po_file writes, an entry has its flags other than
\* fuzzy in their order when fuzzy was added or removed, all its flags as
\* they were when its id is in neither set, and no flags line when fuzzy
\* was its only flag and was removed.
C24_OnlyFuzzyChanges ==
    /\ pc = "codec_fuzzied" =>
           \A i \in 1..Len(entries) :
               /\ i <= Len(Decoded)
               /\ OtherFlags(Decoded[i].flags) = OtherFlags(entries[i].flags)
    /\ pc = "codec_verified" =>
           \A i \in 1..Len(entries) :
               /\ i <= Len(Decoded)
               /\ Decoded[i].flags = OtherFlags(entries[i].flags)
               /\ OtherFlags(entries[i].flags) = <<>>
                      => \A k \in 1..Len(Decoded[i].comments) :
                             ~StartsWith(Decoded[i].comments[k], Kw.flags)
    /\ pc = "codec_encoded" =>
           \A i \in 1..Len(entries) :
               /\ i <= Len(Decoded)
               /\ Decoded[i].flags = entries[i].flags

\* fuzzy was removed from between two other flags, which were written back
C24_Witness ==
    /\ pc = "codec_verified"
    /\ \E i \in 1..Len(entries) :
           /\ entries[i].flags = <<<<"x">>, FUZZY, <<"y">>>>
           /\ i <= Len(Decoded)
           /\ Decoded[i].flags = <<<<"x">>, <<"y">>>>

(***************************************************************************)
(* Specification SpecBatch: filter_entries in every mode and extract_batch *)
(* for the batches 1, 2, ... of a mode and a batch size, on the files of   *)
(* BatchFiles.                                                             *)
(***************************************************************************)
BatchStates == EntryStates \cup {"noid"}

\* an entry in the given state; "noid" is an entry with the empty id
BatchBlock(id, state) ==
    IF state = "noid"
    THEN <<RefLine, Kw.msgid \o <<QQ, QQ>>, Kw.msgstr \o <<QQ, QQ>>>>
    ELSE EntryBlock(id, state)

BatchFiles ==
    {JoinBlocks(<<HeaderBlock>> \o [k \in 1..Len(sts) |-> BatchBlock(Ids[k], sts[k])]) :
        sts \in SeqsUpTo(BatchStates, MaxBatchEntries)}

BatchInit ==
    /\ pc = "batch_start"
    /\ po_exists = TRUE
    /\ po \in BatchFiles
    /\ MainFresh
    /\ EscIdle /\ BatchIdle /\ ValIdle

batchRest == <<po_exists, po, orig, nfiles, imports, all_translations, all_errors,
               all_skipped, verified, applied, validation, exit_code, escVars, valVars>>

BatchParse ==
    /\ pc = "batch_start"
    /\ entries' = parse_po_file(po)
    /\ pc' = "batch_parsed"
    /\ UNCHANGED <<filtered, xargs, loop_batch, exported, batchRest>>

BatchFilter ==
    /\ pc = "batch_parsed"
    /\ filtered' = [mode \in Modes |-> filter_entries(entries, mode)]
    /\ pc' = "batch_filtered"
    /\ UNCHANGED <<entries, xargs, loop_batch, exported, batchRest>>

BatchExtract(mode, batch_size) ==
    /\ pc = "batch_filtered"
    /\ xargs' = [mode |-> mode, batch_size |-> batch_size]
    /\ loop_batch' = 1
    /\ pc' = "batch_loop"
    /\ UNCHANGED <<entries, filtered, exported, batchRest>>

\* extract_batch for the next batch number, until it is beyond the total
BatchStep ==
    LET one == extract_batch(entries, loop_batch, xargs.batch_size,
                             find_similar_strings(entries), xargs.mode)
    IN
    /\ pc = "batch_loop"
    /\ exported' = Append(exported, [batch |-> loop_batch, total_batches |-> one[2],
                                     records |-> one[1]])
    /\ IF loop_batch <= one[2]
       THEN loop_batch' = loop_batch + 1 /\ UNCHANGED pc
       ELSE pc' = "batch_done" /\ UNCHANGED loop_batch
    /\ UNCHANGED <<entries, filtered, xargs, batchRest>>

BatchNext ==
    \/ BatchParse
    \/ BatchFilter
    \/ \E mode \in Modes, batch_size \in 1..MaxBatchSize : BatchExtract(mode, batch_size)
    \/ BatchStep

SpecBatch == BatchInit /\ [][BatchNext]_vars

\* the least t with t * d >= n
Ceil(n, d) == CHOOSE t \in 0..n : t * d >= n /\ \A u \in 0..(t - 1) : u * d < n

\* C6: extract_batch reports ceil(filteredCount / batchSize) batches; the
\* records of the batches 1..totalBatches, concatenated, are the filtered
\* entries in their order, none twice and none left out, with the display
\* ids 1..filteredCount; a batch number beyond the total gives no record.
C6_BatchesCoverFiltered ==
    pc \in {"batch_loop", "batch_done"} =>
        LET f     == filtered[xargs.mode]
            total == Ceil(Len(f), xargs.batch_size)
            recs  == Flatten([k \in 1..Len(exported) |-> exported[k].records])
        IN  /\ \A k \in 1..Len(exported) :
                   /\ exported[k].batch = k
                   /\ exported[k].total_batches = total
                   /\ k <= total => Len(exported[k].records) >= 1
                   /\ k < total => Len(exported[k].records) = xargs.batch_size
                   /\ k > total => exported[k].records = <<>>
            /\ Len(recs) <= Len(f)
            /\ \A j \in 1..Len(recs) :
                   /\ recs[j].id = j
                   /\ j <= Len(f) =>
                          /\ recs[j].msgid = f[j].msgid
                          /\ recs[j].current_msgstr = f[j].msgstr
                          /\ recs[j].references = f[j].references
            /\ pc = "batch_done" => (Len(exported) = total + 1 /\ Len(recs) = Len(f))

\* three entries pass the filter in batches of two: a full batch, then a
\* partial one, then nothing
C6_Witness ==
    /\ pc = "batch_done"
    /\ xargs.batch_size = 2
    /\ Len(filtered[xargs.mode]) = 3
    /\ Len(exported) = 3
    /\ Len(exported[2].records) = 1

\* the entries filter_entries may return at all
Survives(e) == ~e.is_header /\ e.msgid # <<>> /\ ~(e.msgstr # <<>> /\ FUZZY \notin Range(e.flags))

\* C7: filter_entries returns, in file order, the surviving entries (not the
\* header, id not empty, not verified) that have no translation for 'empty',
\* that carry the fuzzy flag for 'fuzzy', all of them for 'all'; the 'all'
\* result is the order-preserving union of the other two.
C7_FilterModes ==
    pc \in {"batch_filtered", "batch_loop", "batch_done"} =>
        /\ filtered["empty"] = SelectSeq(entries, LAMBDA e : Survives(e) /\ e.msgstr = <<>>)
        /\ filtered["fuzzy"] = SelectSeq(entries, LAMBDA e : Survives(e) /\ FUZZY \in Range(e.flags))
        /\ filtered["all"] = SelectSeq(entries, Survives)
        /\ filtered["all"] = SelectSeq(entries, LAMBDA e : e \in Range(filtered["empty"])
                                                            \/ e \in Range(filtered["fuzzy"]))

\* the file has an entry that is empty only, one that is fuzzy only, one that
\* is both, a verified one and one without id
C7_Witness ==
    /\ pc = "batch_filtered"
    /\ \E e \in Range(filtered["empty"]) : e \notin Range(filtered["fuzzy"])
    /\ \E e \in Range(filtered["fuzzy"]) : e \notin Range(filtered["empty"])
    /\ \E i \in 1..Len(entries) : is_verified(entries[i])
    /\ Len(filtered["all"]) > 1

(***************************************************************************)
(* Specification SpecValidate: validate_translations.py for one language,  *)
(* one step per entry, on the files of ValFiles.                           *)
(***************************************************************************)
\* pairs of a source string and a translation, one per kind of finding
ValPairs ==
    << <<<<"U", "s", "e", " ", "%", "1">>, <<>>>>,
       <<<<"G", "P", "T", " ", "x">>, <<"y">>>>,
       <<<<"A", "P", "I">>, <<"y">>>>,
       <<<<"a", NL, "b">>, <<"c">>>>,
       <<<<"m">>, <<"s", "a", "m", "e", " ", "l", "o", "n", "g", " ", "t", "x", "t">>>>,
       <<<<"%", "1">>, <<"%", "s">>>>,
       <<<<"K", "O", "A", "s", "s", "i", "s", "t", "a", "n", "t">>, <<"K", "O", "A", "s", "s", "i", "s", "t", "e", "n", "t">>>>,
       <<<<"k">>, <<"k">>>>,
       <<<<"C", "a", "c", "h", "e", " ", "s", "i", "z", "e", ":", " ", "%", "1", " ", "M", "B">>,
         <<"T", "a", "i", "l", "l", "e", " ", "d", "u", " ", "c", "a", "c", "h", "e", " ", ":", " ", "%", "d", " ", "M", "o">>>>,
       <<<<"%", "1">>, <<"%", "1", "%", "s">>>>,
       <<<<"%", "2">>, <<"x">>>>,
       <<<<"G", "P", "T">>, <<"G", "P", "T">>>> >>

ValBlock(pair) ==
    <<Kw.msgid \o QuotedLine(escape_po_string(pair[1])),
      Kw.msgstr \o QuotedLine(escape_po_string(pair[2]))>>

\* a second entry that shares the long translation of the fifth pair
ValTwin == <<Kw.msgid \o QuotedLine(<<"n">>), Kw.msgstr \o QuotedLine(ValPairs[5][2])>>

\* two entries with different source strings that share a translation of
\* exactly DuplicateMinLen characters
ValShortTwins ==
    {<<Kw.msgid \o QuotedLine(<<id>>), Kw.msgstr \o QuotedLine([i \in 1..DuplicateMinLen |-> "w"])>> :
        id \in {"p", "q"}}

ValFiles ==
    {JoinBlocks(<<HeaderBlock>> \o blocks) :
        blocks \in SeqsUpTo({ValBlock(ValPairs[k]) : k \in 1..Len(ValPairs)} \cup {ValTwin}
                                \cup ValShortTwins,
                            MaxValEntries)}

ValInit ==
    /\ pc = "val_start"
    /\ \/ po_exists = FALSE /\ po = <<>>
       \/ po_exists = TRUE /\ po \in ValFiles
    /\ MainFresh
    /\ EscIdle /\ BatchIdle /\ ValIdle

valRest == <<mainVars, escVars, batchVars>>

\* validate_language up to its loop: the file is looked up and parsed
ValParse ==
    /\ pc = "val_start"
    /\ IF ~po_exists
       THEN /\ v_report' = ValidatorMissing
            /\ pc' = "val_done"
            /\ UNCHANGED <<v_entries, v_idx, v_result>>
       ELSE /\ v_entries' = v_parse_po_file(po)
            /\ v_result' = ParseInfo(v_parse_po_file(po), NewValidationResult)
            /\ v_idx' = 1
            /\ pc' = "val_entries"
            /\ UNCHANGED v_report
    /\ UNCHANGED valRest

\* one pass of the loop over the entries
ValEntry ==
    /\ pc = "val_entries"
    /\ v_idx <= Len(v_entries)
    /\ v_result' = validate_entry(v_entries[v_idx], v_result)
    /\ v_idx' = v_idx + 1
    /\ UNCHANGED <<pc, v_entries, v_report, valRest>>

ValDuplicates ==
    /\ pc = "val_entries"
    /\ v_idx > Len(v_entries)
    /\ v_result' = check_duplicates(v_entries, v_result)
    /\ pc' = "val_checked"
    /\ UNCHANGED <<v_entries, v_idx, v_report, valRest>>

\* main() reports the result and exits
ValReport ==
    /\ pc = "val_checked"
    /\ v_report' = ValidatorReport(v_result)
    /\ pc' = "val_done"
    /\ UNCHANGED <<v_entries, v_idx, v_result, valRest>>

ValNext == ValParse \/ ValEntry \/ ValDuplicates \/ ValReport

SpecValidate == ValInit /\ [][ValNext]_vars

\* C10: a validation result passes exactly when it has no error: the report
\* says PASS and the exit status is 0 with any number of warnings and no
\* error, and says FAIL with exit status 1 as soon as there is one error.
C10_PassIffNoErrors ==
    (pc = "val_done" /\ po_exists) =>
        /\ Contains(v_report.stdout, Msg.pass) <=> v_result.errors = <<>>
        /\ Contains(v_report.stdout, Msg.fail) <=> v_result.errors # <<>>
        /\ v_report.exit_code = 0 <=> v_result.errors = <<>>

\* a result with two warnings and no error passed
C10_Witness ==
    /\ pc = "val_done"
    /\ po_exists
    /\ v_result.errors = <<>>
    /\ Len(v_result.warnings) >= 2
    /\ Contains(v_report.stdout, Msg.pass)
    /\ v_report.exit_code = 0

\* the number of entries validate_entry has been called for
Validated ==
    IF pc = "val_entries" THEN v_idx - 1
    ELSE IF pc \in {"val_checked", "val_done"} THEN Len(v_entries)
    ELSE 0

\* the findings of a bucket with the given check name and line
FindingsOf(bucket, check_name, line) ==
    {k \in 1..Len(bucket) : bucket[k].check = check_name /\ bucket[k].line = line}

HasNumberedToken(text) == \E d \in 1..9 : Contains(text, Token(d))

HasPrintfToken(text) == \E c \in {"s", "d", "f"} : Contains(text, <<"%", c>>)

\* the tokens %1..%9 that occur in source and translation a different number of times
MismatchedTokens(e) == {d \in 1..9 : Count(e.msgid, Token(d)) # Count(e.msgstr, Token(d))}

\* C12: for an entry with a translation whose source has a %1..%9 token,
\* validation adds one WRONG_PLACEHOLDER_FORMAT error exactly when the
\* translation has %s, %d or %f, and it adds the PLACEHOLDER_MISMATCH errors
\* (one per token whose counts differ) whether or not it did so.
C12_WrongFormatIffPrintf ==
    \A k \in 1..Validated :
        LET e     == v_entries[k]
            wrong == FindingsOf(v_result.errors, "WRONG_PLACEHOLDER_FORMAT", e.line_number)
            mism  == FindingsOf(v_result.errors, "PLACEHOLDER_MISMATCH", e.line_number)
        IN  (e.msgstr # <<>> /\ HasNumberedToken(e.msgid)) =>
                /\ Cardinality(wrong) = (IF HasPrintfToken(e.msgstr) THEN 1 ELSE 0)
                /\ Cardinality(mism) = Cardinality(MismatchedTokens(e))

\* "Cache size: %1 MB" translated as "Taille du cache : %d Mo" got both
\* errors, and an entry whose counts agree got the format error alone
C12_Witness ==
    /\ pc = "val_done"
    /\ \E k \in 1..Len(v_entries) :
           /\ v_entries[k].msgid = ValPairs[9][1]
           /\ v_entries[k].msgstr = ValPairs[9][2]
           /\ Cardinality(FindingsOf(v_result.errors, "WRONG_PLACEHOLDER_FORMAT",
                                      v_entries[k].line_number)) = 1
           /\ Cardinality(FindingsOf(v_result.errors, "PLACEHOLDER_MISMATCH",
                                      v_entries[k].line_number)) = 1
    /\ \E k \in 1..Len(v_entries) :
           /\ MismatchedTokens(v_entries[k]) = {}
           /\ FindingsOf(v_result.errors, "WRONG_PLACEHOLDER_FORMAT",
                         v_entries[k].line_number) # {}
           /\ FindingsOf(v_result.errors, "PLACEHOLDER_MISMATCH",
                         v_entries[k].line_number) = {}

\* the findings of a bucket about a brand in the entry at the given line
BrandFindings(bucket, check_name, line, brand) ==
    {k \in FindingsOf(bucket, check_name, line) : bucket[k].what[1] = brand}

\* the translation holds a variant of the brand's mistranslation table
HasVariant(text, brand) ==
    \E a \in 1..Len(Mistranslations(brand)) : Contains(text, Mistranslations(brand)[a])

\* C15: for an entry with a translation and a brand name that is in the
\* source: no finding when the brand is in the translation too; otherwise
\* one finding, the error BRAND_NAME_TRANSLATED when the translation holds a
\* listed variant of the brand and the warning BRAND_NAME_MISSING when not.
C15_BrandFindings ==
    \A k \in 1..Validated :
        LET e == v_entries[k]
        IN  e.msgstr # <<>> =>
                \A b \in 1..Len(BRAND_NAMES) :
                    LET brand == BRAND_NAMES[b]
                        errs  == BrandFindings(v_result.errors, "BRAND_NAME_TRANSLATED",
                                               e.line_number, brand)
                        warns == BrandFindings(v_result.warnings, "BRAND_NAME_MISSING",
                                               e.line_number, brand)
                    IN  Contains(e.msgid, brand) =>
                            IF Contains(e.msgstr, brand)
                            THEN errs = {} /\ warns = {}
                            ELSE IF HasVariant(e.msgstr, brand)
                            THEN Cardinality(errs) = 1 /\ warns = {}
                            ELSE errs = {} /\ Cardinality(warns) = 1

\* one entry lost its brand to a listed variant and got the error, another
\* lost it otherwise and got the warning
C15_Witness ==
    /\ pc = "val_done"
    /\ \E k \in 1..Len(v_entries), b \in 1..Len(BRAND_NAMES) :
           /\ v_entries[k].msgstr # <<>>
           /\ Contains(v_entries[k].msgid, BRAND_NAMES[b])
           /\ HasVariant(v_entries[k].msgstr, BRAND_NAMES[b])
           /\ BrandFindings(v_result.errors, "BRAND_NAME_TRANSLATED",
                            v_entries[k].line_number, BRAND_NAMES[b]) # {}
    /\ \E k \in 1..Len(v_entries), b \in 1..Len(BRAND_NAMES) :
           /\ v_entries[k].msgstr # <<>>
           /\ Contains(v_entries[k].msgid, BRAND_NAMES[b])
           /\ ~Contains(v_entries[k].msgstr, BRAND_NAMES[b])
           /\ ~HasVariant(v_entries[k].msgstr, BRAND_NAMES[b])
           /\ BrandFindings(v_result.warnings, "BRAND_NAME_MISSING",
                            v_entries[k].line_number, BRAND_NAMES[b]) # {}

\* the DUPLICATE_TRANSLATION warnings about the translation text t
DuplicateWarnings(t) ==
    {j \in 1..Len(v_result.warnings) :
        /\ v_result.warnings[j].check = "DUPLICATE_TRANSLATION"
        /\ v_result.warnings[j].what[Len(v_result.warnings[j].what)] = t}

\* the source strings of the entries whose translation is t
SourcesOf(t) == {v_entries[k].msgid : k \in {n \in 1..Len(v_entries) : v_entries[n].msgstr = t}}

\* the translation texts that are duplicates: longer than 10 characters and
\* shared by entries with two or more distinct source strings
DuplicateTexts ==
    {t \in {v_entries[k].msgstr : k \in 1..Len(v_entries)} :
        Len(t) > 10 /\ Cardinality(SourcesOf(t)) >= 2}

\* C22: check_duplicates adds one DUPLICATE_TRANSLATION warning per
\* translation text of more than 10 characters that entries with two or more
\* distinct source strings share, none for a shorter text or for a text
\* whose entries all have one source string, and no error.
C22_DuplicateWarnings ==
    /\ [](pc \in {"val_checked", "val_done"} =>
            /\ \A t \in {v_entries[k].msgstr : k \in 1..Len(v_entries)} :
                   Cardinality(DuplicateWarnings(t)) = (IF t \in DuplicateTexts THEN 1 ELSE 0)
            /\ Cardinality({j \in 1..Len(v_result.warnings) :
                                v_result.warnings[j].check = "DUPLICATE_TRANSLATION"})
                   = Cardinality(DuplicateTexts)
            /\ \A j \in 1..Len(v_result.errors) :
                   v_result.errors[j].check # "DUPLICATE_TRANSLATION")
    /\ [][ValDuplicates => v_result'.errors = v_result.errors]_vars

\* two entries with different source strings share a long translation and
\* got the one warning
C22_Witness ==
    /\ pc = "val_done"
    /\ DuplicateTexts # {}
    /\ \A t \in DuplicateTexts : Cardinality(DuplicateWarnings(t)) = 1

(***************************************************************************)
(* Specification SpecValidateEntry: validate_entry on one entry, whose     *)
(* source string and translation are those of ValPairs or empty, and an    *)
(* empty result.                                                           *)
(***************************************************************************)
EntrySources == {ValPairs[k][1] : k \in 1..Len(ValPairs)} \cup {<<>>}

EntryTranslations == {ValPairs[k][2] : k \in 1..Len(ValPairs)} \cup {<<>>}

ValidateEntryInit ==
    /\ pc = "entry_start"
    /\ v_entries \in {<<[VNewPOEntry EXCEPT !.msgid = id, !.msgstr = tr, !.line_number = 1]>> :
                          id \in EntrySources, tr \in EntryTranslations}
    /\ v_idx = 1
    /\ v_result = NewValidationResult
    /\ v_report = NoReport
    /\ MainIdle /\ EscIdle /\ BatchIdle

ValidateEntry ==
    /\ pc = "entry_start"
    /\ v_result' = validate_entry(v_entries[v_idx], v_result)
    /\ pc' = "entry_done"
    /\ UNCHANGED <<v_entries, v_idx, v_report, valRest>>

ValidateEntryNext == ValidateEntry

SpecValidateEntry == ValidateEntryInit /\ [][ValidateEntryNext]_vars

\* C21: validate_entry adds nothing for an entry with the empty id (the
\* header), and for an entry with an id and no translation it adds one
\* EMPTY_TRANSLATION warning and nothing else, whatever the source holds.
C21_EmptyShortCircuits ==
    pc = "entry_done" =>
        LET e == v_entries[1]
        IN  /\ e.msgid = <<>> => v_result = NewValidationResult
            /\ (e.msgid # <<>> /\ e.msgstr = <<>>) =>
                   /\ v_result.errors = <<>>
                   /\ v_result.info = <<>>
                   /\ Len(v_result.warnings) = 1
                   /\ v_result.warnings[1].check = "EMPTY_TRANSLATION"
                   /\ v_result.warnings[1].line = e.line_number

\* an entry without translation whose source has a placeholder and a
\* technical term got the one warning and no error
C21_Witness ==
    /\ pc = "entry_done"
    /\ v_entries[1].msgstr = <<>>
    /\ HasNumberedToken(v_entries[1].msgid)
    /\ HasTerm(v_entries[1].msgid, TECHNICAL_TERMS[4])
    /\ Len(v_result.warnings) = 1
    /\ v_result.errors = <<>>

(***************************************************************************)
(* Specification SpecEscape: escape_po_string followed by                  *)
(* unescape_po_string on every string over EscapeAlphabet of length at     *)
(* most MaxStrLen.                                                         *)
(***************************************************************************)
EscapeAlphabet == {BS, QQ, NL, TAB, "n", "t", "a"}

EscInit ==
    /\ pc = "esc_start"
    /\ s_in \in SeqsUpTo(EscapeAlphabet, MaxStrLen)
    /\ s_esc = <<>>
    /\ s_out = <<>>
    /\ MainIdle /\ BatchIdle /\ ValIdle

Escape ==
    /\ pc = "esc_start"
    /\ s_esc' = escape_po_string(s_in)
    /\ pc' = "esc_escaped"
    /\ UNCHANGED <<s_in, s_out, mainVars, batchVars, valVars>>

Unescape ==
    /\ pc = "esc_escaped"
    /\ s_out' = unescape_po_string(s_esc)
    /\ pc' = "esc_done"
    /\ UNCHANGED <<s_in, s_esc, mainVars, batchVars, valVars>>

EscNext == Escape \/ Unescape

SpecEscape == EscInit /\ [][EscNext]_vars

\* C5: unescape_po_string(escape_po_string(s)) = s for every string s over
\* backslash, quote, newline, tab and letters including n and t.
C5_UnescapeInvertsEscape == pc = "esc_done" => s_out = s_in

=============================================================================
